---- MODULE Spec2Model ----
(***************************************************************************)
(* A model of the distribution core of skills-hub: the remote batch sync   *)
(* (core/remote_sync.rs), the remote-host commands and the local           *)
(* sync/unsync commands (commands/mod.rs).                                  *)
(*                                                                         *)
(* Skills are named 1..MaxSkills; the central directory of skill n is the  *)
(* local path of that skill.  Failures of the SSH transport, of the local  *)
(* filesystem and of the store are inputs of the actions, drawn with \E.   *)
(***************************************************************************)
EXTENDS Integers, Sequences, FiniteSets, TLC

\* ------------------------------------------------------------------ bounds
MaxSkills == 3

MaxProcs == 2

MaxClock == 2

Names == 1..MaxSkills

\* ------------------------------------------------------- tool adapters
\* default_tool_adapters(): three known tools, two of which watch the same
\* physical skills directory; "zz" is a key no adapter has.
KnownTools == {"toolA", "toolB", "toolC"}

UnknownKey == "zz"

ToolKeys == KnownTools \cup {UnknownKey}

relative_skills_dir(t) == IF t \in {"toolA", "toolB"} THEN "dAB" ELSE "dC"

SkillsDirs == {relative_skills_dir(t) : t \in KnownTools}

adapters_find(tool_key) == tool_key \in KnownTools

\* ------------------------------------------------------------ helpers
Range(s) == {s[i] : i \in 1..Len(s)}

NoDupSeqs(S, n) ==
  UNION {{s \in [1..k -> S] : \A i, j \in 1..k : i # j => s[i] # s[j]} : k \in 0..n}

SelectNames(s, keep) == SelectSeq(s, LAMBDA n : n \in keep)

\* The tool_keys argument: the lists the caller passes (none, one tool,
\* a key without adapter, a tool and such a key, two tools with their own
\* directories, two tools sharing one directory).
ToolKeyLists ==
  {<<>>, <<"toolA">>, <<"zz">>, <<"toolA", "zz">>, <<"toolA", "toolC">>,
   <<"toolA", "toolB">>}

\* --------------------------------------------------------------- state
VARIABLES
  centralDir,   \* local: the skills whose central directory exists
  remote,       \* the remote host's filesystem (staging, tool dirs, links)
  ops,          \* the remote operations issued on the session, in order
  bSkills,      \* sync_all_skills_to_remote: argument `skills` (names)
  bToolKeys,    \* sync_all_skills_to_remote: argument `tool_keys`
  bPc,          \* sync_all_skills_to_remote: position in the function
  bI,           \* sync_all_skills_to_remote: loop index (skills done)
  synced,       \* sync_all_skills_to_remote: local `synced`
  errors,       \* sync_all_skills_to_remote: local `errors`
  bResult,      \* sync_all_skills_to_remote: "none", "ok" (Ok(synced)),
                \* "err_exec" (a preamble command failed) or "err_all_failed"
  installed,    \* local: the tools is_tool_installed finds
  targets,      \* store: the skill_targets rows, by skill id and tool key
  fs,           \* local: what is at <tool skills dir>/<name>
  lcall,        \* the local command that has just returned, and its result
  lops,         \* the removals and row deletions that command issued
  customs,      \* store: the custom_targets rows, by id
  skillRows,    \* store: the ids of the skills rows
  del,          \* delete_managed_skill: its position and locals
  hosts,        \* store: the remote_hosts rows, by id
  procs,        \* the remote commands in flight on the worker pool
  ltree,        \* sftp_upload_dir: the local tree under local_path
  rtree,        \* SFTP server: what is at each remote path
  mkp,          \* sftp_mkdir_p: the call in flight, its frames and result
  sshCall,      \* ssh_exec: what one call meets on the channel, and its result
  sess,         \* create_ssh_session: its arguments, position, session and result
  repo,         \* the central repository: setting, skills rows, directories
  fmt,          \* format_anyhow_error: the error given and the message made
  arch,         \* download_and_extract: the archive and what was written
  srch,         \* search_clawhub: the request, the response and the results
  conns,        \* the SSH sessions open and the remote command handlers in flight
  trows,        \* store: the skill_targets rows, each with its id
  rsync,        \* the remote sync operation that has run, and what its uploads met
  gh,           \* get_github_tree: the answers of the branches, the requests, the result
  tstat         \* get_tool_status: the stored installed_tools_v1 and the last report

batchVars == <<remote, ops, bSkills, bToolKeys, bPc, bI, synced, errors, bResult>>

hostVars == <<hosts, procs>>

localVars == <<installed, targets, fs, lcall, lops>>

customVars == <<customs, skillRows, del>>

uploadVars == <<ltree, rtree, mkp, sshCall, sess>>

queryVars == <<gh, tstat>>

moreVars == <<repo, fmt, arch, srch, conns, trows, rsync, queryVars>>

vars == <<centralDir, batchVars, hostVars, localVars, customVars, uploadVars, moreVars>>

\* What the batch function leaves alone, what the host commands do, and
\* what the commands on the local tools do.
notBatch == <<hostVars, localVars, customVars, uploadVars, moreVars>>

notHost == <<batchVars, localVars, customVars, uploadVars, moreVars>>

notLocal == <<batchVars, hostVars, customVars, uploadVars, moreVars>>

\* ------------------------------------------------- local and remote trees
\* Names of directory entries, and the paths below a directory, as
\* sequences of names.
Comp == {"a", ".git"}

TreeDepth == 2

RelPaths == UNION {[1..n -> Comp] : n \in 1..TreeDepth}

Parent(p) == SubSeq(p, 1, Len(p) - 1)

\* remote_path of an upload: <home>/<staging>, here /h/s.
RemoteBase == <<"h", "s">>

\* The remote paths; <<>> is "/".
RPaths == {<<"h">>, RemoteBase} \cup {RemoteBase \o r : r \in RelPaths}

\* A tree gives each path "none", "dir", "file" or (local only) "link";
\* something is at a path only inside a directory.
WellFormed(t, top) ==
  \A p \in DOMAIN t : t[p] # "none" /\ Parent(p) # top => t[Parent(p)] = "dir"

NoCallMkdir == [res |-> "idle", path |-> <<>>, stack |-> <<>>, via |-> ""]

\* ssh_exec is not called.
NoExec ==
  [pc |-> "idle", command |-> "", fail |-> "none", stdout |-> "", stderr_buf |-> <<>>,
   status |-> 0, result |-> [ok |-> FALSE, output |-> "", err |-> <<>>]]

\* create_ssh_session is not called.
NoSession ==
  [pc |-> "idle", auth_method |-> "", key_given |-> FALSE, key_path |-> <<>>,
   home_ok |-> FALSE, existing |-> {},
   log |-> <<>>, key |-> <<>>, authenticated |-> FALSE, res |-> "none", commands |-> 0]

\* set_central_repo_path, format_anyhow_error, download_and_extract and
\* search_clawhub are not called.
NoRepo == [pc |-> "idle"]

NoFormat == [pc |-> "idle"]

NoArchive == [pc |-> "idle"]

NoSearch == [pc |-> "idle"]

NoConns == [pc |-> "idle"]

NoRows == {}

NoRemoteSync == [pc |-> "idle"]

NoTree == [pc |-> "idle"]

NoToolStatus == [pc |-> "idle"]

QueryIdle ==
  /\ gh = NoTree
  /\ tstat = NoToolStatus

MoreIdle ==
  /\ repo = NoRepo
  /\ fmt = NoFormat
  /\ arch = NoArchive
  /\ srch = NoSearch
  /\ conns = NoConns
  /\ trows = NoRows
  /\ rsync = NoRemoteSync
  /\ QueryIdle

SftpIdle ==
  /\ ltree = [r \in RelPaths |-> "none"]
  /\ rtree = [p \in RPaths |-> "none"]
  /\ mkp = NoCallMkdir
  /\ sshCall = NoExec
  /\ sess = NoSession

UploadIdle ==
  /\ SftpIdle
  /\ MoreIdle

\* ------------------------------------------------- remote host store
\* The id of the one row the store can hold, and an id that has no row.
HostIds == {"h1"}

CallIds == HostIds \cup {"h0"}

\* The connection profile (label, host, port, username, auth, key path).
Profiles == {"p1", "p2"}

\* The profile add_remote_host is called with.
NewProfile == "p1"

Statuses == {"idle", "syncing", "ok", "error"}

\* No row; last_sync_at 0 is None.
NoHost == [profile |-> "", status |-> "absent", last_sync_at |-> 0]

\* store.get_remote_host_by_id(id)
get_remote_host_by_id(hs, id) == IF id \in HostIds THEN hs[id] ELSE NoHost

HostRecord(profile, status, last) ==
  [profile |-> profile, status |-> status, last_sync_at |-> last]

\* store.update_remote_host_sync_status(id, status, last_sync_at): an
\* UPDATE of the row with that id; None keeps the stored last_sync_at.
update_remote_host_sync_status(hs, id, status, last) ==
  IF get_remote_host_by_id(hs, id) = NoHost THEN hs
  ELSE [hs EXCEPT ![id].status = status,
                  ![id].last_sync_at = IF last = 0 THEN @ ELSE last]

\* `store.update_remote_host_sync_status(..).ok()`: a failed write is dropped.
WriteStatus(hs, id, status, last, write_ok) ==
  IF write_ok THEN update_remote_host_sync_status(hs, id, status, last) ELSE hs

\* --------------------------------------------- commands in flight
Procs == 1..MaxProcs

Idle == [kind |-> "", host |-> "", pc |-> "idle", res |-> ""]

Returned(p, res) == [procs EXCEPT ![p].pc = "done", ![p].res = res]

HostIdle ==
  /\ hosts = [h \in HostIds |-> NoHost]
  /\ procs = [p \in Procs |-> Idle]

\* ------------------------------------------------------ error messages
\* A message is a sequence of pieces of text; an anyhow::Error is its chain
\* of messages, the outermost context first and the root cause last.
PathStr(q) == q[1] \o "/" \o ToString(q[2])

\* str::starts_with, for a prefix that is one piece
starts_with(m, p) == Len(m) > 0 /\ m[1] = p

\* str::contains, for a needle that is one piece
contains(m, p) == \E i \in 1..Len(m) : m[i] = p

\* str::find: the index of the first piece p, 0 for None
find(m, p) ==
  IF contains(m, p) THEN CHOOSE i \in 1..Len(m) : m[i] = p /\ \A j \in 1..(i - 1) : m[j] # p
  ELSE 0

\* format!("{:#}", err): the messages of the chain joined by ": "
RECURSIVE Alternate(_)
Alternate(err) ==
  IF Len(err) = 1 THEN err[1]
  ELSE err[1] \o <<": ">> \o Alternate(Tail(err))

\* err.root_cause().to_string()
root_cause(err) == err[Len(err)]

\* The pieces whose lower case differs from them; str::to_lowercase.
LowerOf(p) ==
  IF p = "GitHub.com" THEN "github.com"
  ELSE IF p = "SecureTransport" THEN "securetransport"
  ELSE IF p = "Authentication" THEN "authentication"
  ELSE p

to_lowercase(m) == [i \in 1..Len(m) |-> LowerOf(m[i])]

\* full.lines().next() and the lines after it
FirstLine(m) == IF contains(m, "\n") THEN SubSeq(m, 1, find(m, "\n") - 1) ELSE m

RestLines(m) == IF contains(m, "\n") THEN SubSeq(m, find(m, "\n") + 1, Len(m)) ELSE <<>>

\* The temp directory of a clone context is cut from the first line.
RedactClone(full) ==
  LET head == FirstLine(full)
      pos == find(head, " into ")
      head_redacted == SubSeq(head, 1, pos - 1) \o <<" (temp dir omitted)">>
  IN IF Len(full) > 0 /\ starts_with(head, "clone ") /\ pos # 0
       THEN IF RestLines(full) = <<>> THEN head_redacted
            ELSE head_redacted \o <<"\n">> \o RestLines(full)
       ELSE full

SpecialPrefixes == {"MULTI_SKILLS|", "TARGET_EXISTS|", "TOOL_NOT_INSTALLED|"}

\* The hint chosen for a GitHub clone failure.
GithubHint(lower) ==
  IF contains(lower, "authentication") \/ contains(lower, "permission denied")
       \/ contains(lower, "credentials")
    THEN "hint: private repository or no permission"
  ELSE IF contains(lower, "not found") THEN "hint: repository not found"
  ELSE IF contains(lower, "failed to resolve") \/ contains(lower, "could not resolve")
       \/ contains(lower, "dns")
    THEN "hint: DNS"
  ELSE IF contains(lower, "timed out") \/ contains(lower, "timeout") THEN "hint: timeout"
  ELSE IF contains(lower, "connection refused") \/ contains(lower, "connection reset")
    THEN "hint: connection refused or reset"
  ELSE "hint: cannot fetch from GitHub"

\* format_anyhow_error(err)
format_anyhow_error(err) ==
  LET first == err[1]
      full == RedactClone(Alternate(err))
      root == root_cause(err)
      lower == to_lowercase(full)
  IN IF \E p \in SpecialPrefixes : starts_with(first, p) THEN first
     ELSE IF contains(lower, "github.com")
               /\ (contains(lower, "clone ") \/ contains(lower, "remote")
                     \/ contains(lower, "fetch"))
       THEN IF contains(lower, "securetransport")
              THEN <<"hint: TLS check failed (SecureTransport)", "\n\ndetail: ">> \o root
              ELSE <<GithubHint(lower), "\n\ndetail: ">> \o root
     ELSE full

\* ------------------------------------------- local tools and targets
\* The skill ids the local commands are called with (the name of skill n
\* is n, and its central directory is in centralDir while it exists).
SkillIds == {1}

\* adapters_sharing_skills_dir(adapter): the adapters with the same
\* skills directory, in registry order.
adapters_sharing_skills_dir(t) ==
  IF relative_skills_dir(t) = "dAB" THEN <<"toolA", "toolB">> ELSE <<t>>

\* resolve_default_path(adapter).join(name)
TargetPath(t, name) == <<relative_skills_dir(t), name>>

\* The id of the one custom target the store can hold, its key in the
\* skill_targets rows, and the directory its path names.
CustomIds == {"c1"}

CustomKey(id) == "custom:" \o id

CustomDir == "dX"

DestKeys == KnownTools \cup {CustomKey(id) : id \in CustomIds}

DestDirs == SkillsDirs \cup {CustomDir}

Paths == DestDirs \X SkillIds

\* store.get_custom_target_by_id(id) -> None
NoCustom == [path |-> "", remote_host_id |-> ""]

\* CustomTargetRecord (path and remote_host_id; "" is None)
CustomTargetRecord(path, rh) == [path |-> path, remote_host_id |-> rh]

\* store.get_custom_target_by_id(id)
get_custom_target_by_id(cs, id) == IF id \in CustomIds THEN cs[id] ELSE NoCustom

\* store.get_skill_target(skill_id, tool) -> None
NoTarget == [target_path |-> <<"", 0>>, mode |-> "none"]

\* SkillTargetRecord (target_path and mode; status is always "ok")
SkillTargetRecord(path, mode) == [target_path |-> path, mode |-> mode]

\* store.get_skill_target(skill_id, tool)
get_skill_target(tg, s, k) == IF k \in DestKeys THEN tg[s][k] ELSE NoTarget

NoPath == <<"", 0>>

\* The result a local command returns: Ok with the SyncResultDto's
\* mode_used and target_path (both empty for Ok(())), or Err with a message.
Call(op, s, t, res, mode, path, err) ==
  [op |-> op, skill |-> s, tool |-> t, res |-> res,
   mode_used |-> mode, target_path |-> path, err |-> err]

NoCall == Call("", 0, "", "", "", NoPath, <<>>)

\* delete_managed_skill is not running.
NoDelete == [pc |-> "idle", skill |-> 0, todo |-> <<>>, remove_failures |-> <<>>]

CustomIdle ==
  /\ customs = [id \in CustomIds |-> NoCustom]
  /\ skillRows = SkillIds
  /\ del = NoDelete

LocalIdle ==
  /\ CustomIdle
  /\ installed = KnownTools
  /\ targets = [s \in SkillIds |-> [k \in DestKeys |-> NoTarget]]
  /\ fs = [q \in Paths |-> "none"]
  /\ lcall = NoCall
  /\ lops = <<>>

\* ------------------------------------------------------- remote state
\* staged[n]: the staging directory <home>/.skillshub/<n>;
\* dirs: the tool skills directories that exist; links[d, n]: what is at
\* <home>/<d>/<n>: 0 is nothing, m > 0 a symbolic link to the staging
\* directory of m, RealDir a directory that is not a link; inside: the
\* pairs <<p, m>> where the real directory at p holds a link named <m> to
\* the staging directory of m.
RealDir == -1

EmptyRemote ==
  [staged |-> [n \in Names |-> "none"],
   dirs   |-> {},
   links  |-> [p \in DestDirs \X Names |-> 0],
   inside |-> {}]

Op(kind, skill, tool) == [op |-> kind, skill |-> skill, tool |-> tool]

\* ssh_exec(sess, command): the command's exit status decides.
SshOutcomes == {"ok", "fail"}

\* sftp_upload_dir(sess, local_path, remote_path).  `outcome` is what the
\* transfer meets: "ok", "fail_clean" (the SFTP channel or the base mkdir
\* fails) or "fail_partial" (a later mkdir, read or write fails).
\* Returns [ok, remote, ops].
UploadOutcomes == {"ok", "fail_clean", "fail_partial"}

sftp_upload_dir(rem, log, n, local_exists, outcome) ==
  IF ~local_exists
    THEN [ok |-> FALSE, remote |-> rem, ops |-> log]
    ELSE CASE outcome = "ok" ->
                [ok |-> TRUE,
                 remote |-> [rem EXCEPT !.staged[n] = "full"],
                 ops |-> Append(log, Op("upload", n, ""))]
           [] outcome = "fail_clean" ->
                [ok |-> FALSE, remote |-> rem,
                 ops |-> Append(log, Op("upload", n, ""))]
           [] OTHER ->
                [ok |-> FALSE,
                 remote |-> [rem EXCEPT !.staged[n] =
                               IF @ = "full" THEN "full" ELSE "partial"],
                 ops |-> Append(log, Op("upload", n, ""))]

\* create_remote_symlink(sess, source, target): `mkdir -p <parent>` then
\* `ln -sfn <source> <target>`; target is <home>/<dir>/<n>, source the
\* staging directory of src.  `ln -sfn` replaces what is at the target,
\* a link to a directory included (-n), but with a real directory at the
\* target it makes the link inside it, under the source's name.
\* Returns [ok, remote, ops].
LinkOutcomes == {"ok", "mkdir_fail", "ln_fail"}

create_remote_symlink(rem, log, src, dir, n, outcome) ==
  LET log1 == Append(log, Op("mkdir_parent", n, dir))
      log2 == Append(log1, Op("ln", n, dir))
  IN CASE outcome = "mkdir_fail" ->
            [ok |-> FALSE, remote |-> rem, ops |-> log1]
       [] outcome = "ln_fail" ->
            [ok |-> FALSE,
             remote |-> [rem EXCEPT !.dirs = @ \cup {dir}],
             ops |-> log2]
       [] OTHER ->
            [ok |-> TRUE,
             remote |-> IF rem.links[<<dir, n>>] = RealDir
                          THEN [rem EXCEPT !.dirs = @ \cup {dir},
                                           !.inside = @ \cup {<<<<dir, n>>, src>>}]
                          ELSE [rem EXCEPT !.dirs = @ \cup {dir},
                                           !.links[<<dir, n>>] = src],
             ops |-> log2]

\* ------------------------------ sync_all_skills_to_remote: the loop body
\* One acc is [remote, ops, synced, errors].  link[k] is the outcome of
\* the k-th tool key's create_remote_symlink.
RECURSIVE LinkTools(_, _, _, _, _)
LinkTools(acc, n, tool_keys, k, link) ==
  IF k > Len(tool_keys) THEN acc
  ELSE IF ~adapters_find(tool_keys[k])
    THEN LinkTools(acc, n, tool_keys, k + 1, link)
    ELSE LET r == create_remote_symlink(acc.remote, acc.ops, n,
                                        relative_skills_dir(tool_keys[k]), n, link[k])
             acc1 == [acc EXCEPT !.remote = r.remote, !.ops = r.ops,
                                 !.errors = IF r.ok THEN @
                                            ELSE Append(@, [skill |-> n, tool |-> tool_keys[k]])]
         IN LinkTools(acc1, n, tool_keys, k + 1, link)

\* A loop body that reports a skipped skill as synced.
LoopBodySkipCounted(acc, n, local_exists, tool_keys, up, link) ==
  IF ~local_exists
    THEN [acc EXCEPT !.synced = Append(@, n)]
    ELSE LET u == sftp_upload_dir(acc.remote, acc.ops, n, local_exists, up)
         IN IF ~u.ok
              THEN [acc EXCEPT !.remote = u.remote, !.ops = u.ops,
                               !.errors = Append(@, [skill |-> n, tool |-> ""])]
              ELSE LET l == LinkTools([acc EXCEPT !.remote = u.remote, !.ops = u.ops],
                                      n, tool_keys, 1, link)
                   IN [l EXCEPT !.synced = Append(@, n)]

LoopBody(acc, n, local_exists, tool_keys, up, link) ==
  IF ~local_exists
    THEN acc     \* skipped: `continue`
    ELSE LET u == sftp_upload_dir(acc.remote, acc.ops, n, local_exists, up)
         IN IF ~u.ok
              THEN [acc EXCEPT !.remote = u.remote, !.ops = u.ops,
                               !.errors = Append(@, [skill |-> n, tool |-> ""])]
              ELSE LET l == LinkTools([acc EXCEPT !.remote = u.remote, !.ops = u.ops],
                                      n, tool_keys, 1, link)
                   IN [l EXCEPT !.synced = Append(@, n)]

\* The function's verdict after the loop: "err_all_failed" is the bail
\* `all skills failed to sync`, "ok" is Ok(synced).
BatchVerdict(syn, errs) ==
  IF errs # <<>> /\ syn = <<>> THEN "err_all_failed" ELSE "ok"

\* ------------------------------------------- sync_all_skills_to_remote
\* The batch function when no call of it is modelled step by step.
BatchIdle ==
  /\ remote = EmptyRemote
  /\ ops = <<>>
  /\ bSkills = <<>>
  /\ bToolKeys = <<>>
  /\ bPc = "off"
  /\ bI = 0
  /\ synced = <<>>
  /\ errors = <<>>
  /\ bResult = "none"

BatchInit ==
  /\ HostIdle
  /\ UploadIdle
  /\ LocalIdle
  /\ bSkills \in NoDupSeqs(Names, MaxSkills)
  /\ centralDir \in SUBSET Range(bSkills)
  /\ bToolKeys \in ToolKeyLists
  /\ remote = EmptyRemote
  /\ ops = <<>>
  /\ bPc = "home"
  /\ bI = 0
  /\ synced = <<>>
  /\ errors = <<>>
  /\ bResult = "none"

\* let home = ssh_exec(sess, "echo $HOME")?
EchoHome ==
  /\ bPc = "home"
  /\ \E out \in SshOutcomes :
       /\ ops' = Append(ops, Op("echo_home", 0, ""))
       /\ IF out = "ok"
            THEN bPc' = "mkdir" /\ bResult' = bResult
            ELSE bPc' = "done" /\ bResult' = "err_exec"
  /\ UNCHANGED <<centralDir, remote, bSkills, bToolKeys, bI, synced, errors, notBatch>>

\* ssh_exec(sess, "mkdir -p '<home>/.skillshub'")?
MkdirSkillshub ==
  /\ bPc = "mkdir"
  /\ \E out \in SshOutcomes :
       /\ ops' = Append(ops, Op("mkdir_skillshub", 0, ""))
       /\ IF out = "ok"
            THEN bPc' = "loop" /\ bResult' = bResult
            ELSE bPc' = "done" /\ bResult' = "err_exec"
  /\ UNCHANGED <<centralDir, remote, bSkills, bToolKeys, bI, synced, errors, notBatch>>

\* A loop that gives up at the first skill whose upload or link failed.
LoopStepAbortOnError ==
  /\ bPc = "loop"
  /\ bI < Len(bSkills)
  /\ \E up \in UploadOutcomes, link \in [1..Len(bToolKeys) -> LinkOutcomes] :
       LET n == bSkills[bI + 1]
           acc == LoopBody([remote |-> remote, ops |-> ops,
                            synced |-> synced, errors |-> errors],
                           n, n \in centralDir, bToolKeys, up, link)
       IN /\ remote' = acc.remote
          /\ ops' = acc.ops
          /\ synced' = acc.synced
          /\ errors' = acc.errors
          /\ bI' = IF acc.errors # errors THEN Len(bSkills) ELSE bI + 1
  /\ UNCHANGED <<centralDir, bSkills, bToolKeys, bPc, bResult, notBatch>>

\* One iteration of `for (name, local_path) in skills`.
LoopStep ==
  /\ bPc = "loop"
  /\ bI < Len(bSkills)
  /\ \E up \in UploadOutcomes, link \in [1..Len(bToolKeys) -> LinkOutcomes] :
       LET n == bSkills[bI + 1]
           acc == LoopBody([remote |-> remote, ops |-> ops,
                            synced |-> synced, errors |-> errors],
                           n, n \in centralDir, bToolKeys, up, link)
       IN /\ remote' = acc.remote
          /\ ops' = acc.ops
          /\ synced' = acc.synced
          /\ errors' = acc.errors
  /\ bI' = bI + 1
  /\ UNCHANGED <<centralDir, bSkills, bToolKeys, bPc, bResult, notBatch>>

\* After the loop: bail when every skill failed, else Ok(synced).
LoopExit ==
  /\ bPc = "loop"
  /\ bI = Len(bSkills)
  /\ bPc' = "done"
  /\ bResult' = BatchVerdict(synced, errors)
  /\ UNCHANGED <<centralDir, remote, ops, bSkills, bToolKeys, bI, synced, errors, notBatch>>

BatchNext == EchoHome \/ MkdirSkillshub \/ LoopStep \/ LoopExit

SpecBatch == BatchInit /\ [][BatchNext]_vars

\* ------------------------------------------- the batch as one call
\* The [synced, errors] the loop can end with, for every outcome of every
\* upload and link (the remote side of each step is computed and dropped).
RECURSIVE LoopResults(_, _, _, _)
LoopResults(skills, tool_keys, local, i) ==
  IF i = 0 THEN {[synced |-> <<>>, errors |-> <<>>]}
  ELSE {LET acc == LoopBody([remote |-> EmptyRemote, ops |-> <<>>,
                             synced |-> a.synced, errors |-> a.errors],
                            skills[i], skills[i] \in local, tool_keys, up, link)
        IN [synced |-> acc.synced, errors |-> acc.errors] :
          a \in LoopResults(skills, tool_keys, local, i - 1),
          up \in UploadOutcomes,
          link \in [1..Len(tool_keys) -> LinkOutcomes]}

\* The results sync_all_skills_to_remote(sess, skills, tool_keys) can give.
BatchVerdicts(skills, tool_keys, local) ==
  {"err_exec"} \cup
  {BatchVerdict(a.synced, a.errors) :
     a \in LoopResults(skills, tool_keys, local, Len(skills))}

\* store.list_skills(): one row per skill, in store order.
list_skills == [i \in 1..MaxSkills |-> i]

SkillSelections == {SelectNames(list_skills, ids) : ids \in SUBSET Names}

\* The central directories on disk when the host commands run: none, or
\* all but that of skill 2.
LocalDirChoices == {{}, Names \ {2}}

SyncCommands == {"sync_all_skills_to_remote", "sync_selected_skills_to_remote"}

\* skill_pairs: every row for sync_all_skills_to_remote, the rows whose id
\* is in skillIds for sync_selected_skills_to_remote.
SkillPairs(cmd) ==
  IF cmd = "sync_all_skills_to_remote" THEN {list_skills} ELSE SkillSelections

\* What the batch can return to a sync command, for any skillIds and any
\* toolKeys.
Verdicts == {"ok", "err_exec", "err_all_failed"}

SyncVerdicts ==
  UNION {UNION {{<<c, local, v>> : v \in BatchVerdicts(sk, tk, local)} :
                  sk \in SkillPairs(c), tk \in ToolKeyLists} :
           c \in SyncCommands, local \in LocalDirChoices}

\* --------------------------------------------- remote host commands
\* now_ms(): a time of the clock.
Times == 1..MaxClock

HostInit ==
  /\ BatchIdle
  /\ LocalIdle
  /\ centralDir \in LocalDirChoices
  /\ HostIdle
  /\ UploadIdle

\* sync_all_skills_to_remote / sync_selected_skills_to_remote, up to the
\* status write `syncing`: get_remote_host_by_id(hostId)?, then the write.
SyncStart(p, cmd, h) ==
  /\ procs[p].pc = "idle"
  /\ cmd \in SyncCommands
  /\ \E read_ok \in BOOLEAN, write_ok \in BOOLEAN :
       IF ~read_ok \/ get_remote_host_by_id(hosts, h) = NoHost
         THEN /\ procs' = [procs EXCEPT ![p] = [kind |-> cmd, host |-> h,
                                                pc |-> "done", res |-> "err"]]
              /\ hosts' = hosts
         ELSE /\ procs' = [procs EXCEPT ![p] = [kind |-> cmd, host |-> h,
                                                pc |-> "connect", res |-> ""]]
              /\ hosts' = WriteStatus(hosts, h, "syncing", 0, write_ok)
  /\ UNCHANGED <<centralDir, notHost>>

\* create_ssh_session(..); on failure the status write `error`.
SyncConnect(p) ==
  /\ procs[p].pc = "connect"
  /\ procs[p].kind \in SyncCommands
  /\ \E sess_ok \in BOOLEAN, write_ok \in BOOLEAN :
       IF sess_ok
         THEN /\ procs' = [procs EXCEPT ![p].pc = "list"]
              /\ hosts' = hosts
         ELSE /\ procs' = Returned(p, "err")
              /\ hosts' = WriteStatus(hosts, procs[p].host, "error", 0, write_ok)
  /\ UNCHANGED <<centralDir, notHost>>

\* let skills = store.list_skills().map_err(format_anyhow_error)?
SyncListSkills(p) ==
  /\ procs[p].pc = "list"
  /\ \E read_ok \in BOOLEAN :
       procs' = IF read_ok THEN [procs EXCEPT ![p].pc = "batch"]
                ELSE Returned(p, "err")
  /\ UNCHANGED <<centralDir, hosts, notHost>>

\* remote_sync::sync_all_skills_to_remote(&sess, &skill_pairs, &toolKeys)
\* and the status write that follows it: `ok` with Some(now_ms()), or
\* `error`.
SyncBatch(p) ==
  /\ procs[p].pc = "batch"
  /\ \E v \in Verdicts, t \in Times, write_ok \in BOOLEAN :
       /\ <<procs[p].kind, centralDir, v>> \in SyncVerdicts
       /\ IF v = "ok"
            THEN /\ procs' = Returned(p, "ok")
                 /\ hosts' = WriteStatus(hosts, procs[p].host, "ok", t, write_ok)
            ELSE /\ procs' = Returned(p, "err")
                 /\ hosts' = WriteStatus(hosts, procs[p].host, "error", 0, write_ok)
  /\ UNCHANGED <<centralDir, notHost>>

\* list_remote_skills: get_remote_host_by_id(hostId)?
ListStart(p, h) ==
  /\ procs[p].pc = "idle"
  /\ \E read_ok \in BOOLEAN :
       LET found == read_ok /\ get_remote_host_by_id(hosts, h) # NoHost
       IN procs' = [procs EXCEPT ![p] =
                      [kind |-> "list_remote_skills", host |-> h,
                       pc |-> IF found THEN "connect" ELSE "done",
                       res |-> IF found THEN "" ELSE "err"]]
  /\ UNCHANGED <<centralDir, hosts, notHost>>

\* list_remote_skills: create_ssh_session(..)?
ListConnect(p) ==
  /\ procs[p].pc = "connect"
  /\ procs[p].kind = "list_remote_skills"
  /\ \E sess_ok \in BOOLEAN :
       procs' = IF sess_ok THEN [procs EXCEPT ![p].pc = "exec"]
                ELSE Returned(p, "err")
  /\ UNCHANGED <<centralDir, hosts, notHost>>

\* list_remote_skills: remote_sync::list_remote_skills(&sess)?, then the
\* status write `ok` with last_sync_at None.
ListExec(p) ==
  /\ procs[p].pc = "exec"
  /\ \E exec \in SshOutcomes, write_ok \in BOOLEAN :
       IF exec = "ok"
         THEN /\ procs' = Returned(p, "ok")
              /\ hosts' = WriteStatus(hosts, procs[p].host, "ok", 0, write_ok)
         ELSE /\ procs' = Returned(p, "err")
              /\ hosts' = hosts
  /\ UNCHANGED <<centralDir, notHost>>

\* The command's result reaches the caller; the worker is free again.
Return(p) ==
  /\ procs[p].pc = "done"
  /\ procs' = [procs EXCEPT ![p] = Idle]
  /\ UNCHANGED <<centralDir, hosts, notHost>>

\* list_remote_hosts: reads every row; no write.
list_remote_hosts ==
  UNCHANGED <<centralDir, hosts, procs, notHost>>

\* add_remote_host: a row with a fresh id, status idle, last_sync_at None.
\* port_ok is the check 1 <= port <= 65535.
add_remote_host(id, profile) ==
  /\ hosts[id] = NoHost
  /\ \E port_ok \in BOOLEAN, store_ok \in BOOLEAN :
       hosts' = IF port_ok /\ store_ok
                  THEN [hosts EXCEPT ![id] = HostRecord(profile, "idle", 0)]
                  ELSE hosts
  /\ UNCHANGED <<centralDir, procs, notHost>>

\* update_remote_host whose record is built with status idle and no
\* last_sync_at, as add_remote_host builds it.
update_remote_host_reset(id, profile) ==
  /\ \E port_ok \in BOOLEAN, store_ok \in BOOLEAN :
       hosts' = IF port_ok /\ store_ok /\ get_remote_host_by_id(hosts, id) # NoHost
                  THEN [hosts EXCEPT ![id] = HostRecord(profile, "idle", 0)]
                  ELSE hosts
  /\ UNCHANGED <<centralDir, procs, notHost>>

\* update_remote_host: the port check, get_remote_host_by_id(id)?, then the
\* row is rewritten with the new profile and the existing status and
\* last_sync_at.
update_remote_host(id, profile) ==
  /\ \E port_ok \in BOOLEAN, store_ok \in BOOLEAN :
       hosts' = IF port_ok /\ store_ok /\ get_remote_host_by_id(hosts, id) # NoHost
                  THEN [hosts EXCEPT ![id] =
                          HostRecord(profile, hosts[id].status, hosts[id].last_sync_at)]
                  ELSE hosts
  /\ UNCHANGED <<centralDir, procs, notHost>>

\* delete_remote_host
delete_remote_host(id) ==
  /\ \E store_ok \in BOOLEAN :
       hosts' = IF store_ok /\ id \in HostIds
                  THEN [hosts EXCEPT ![id] = NoHost] ELSE hosts
  /\ UNCHANGED <<centralDir, procs, notHost>>

\* test_remote_connection: a session and `echo ok`; the store is not used.
test_remote_connection ==
  UNCHANGED <<centralDir, hosts, procs, notHost>>

\* get_remote_tool_status: the host row, a session, detect_remote_tools;
\* no write.
get_remote_tool_status(id) ==
  /\ id \in CallIds
  /\ UNCHANGED <<centralDir, hosts, procs, notHost>>

\* browse_remote_directory: the host row, a session, `echo $HOME` when the
\* path starts with ~, and a `find` whose failure gives an empty listing;
\* no write.
browse_remote_directory(id) ==
  /\ id \in CallIds
  /\ UNCHANGED <<centralDir, hosts, procs, notHost>>

HostNext ==
  \/ \E p \in Procs, c \in SyncCommands, h \in CallIds : SyncStart(p, c, h)
  \/ \E p \in Procs : SyncConnect(p)
  \/ \E p \in Procs : SyncListSkills(p)
  \/ \E p \in Procs : SyncBatch(p)
  \/ \E p \in Procs, h \in CallIds : ListStart(p, h)
  \/ \E p \in Procs : ListConnect(p)
  \/ \E p \in Procs : ListExec(p)
  \/ \E p \in Procs : Return(p)
  \/ list_remote_hosts
  \/ \E h \in HostIds : add_remote_host(h, NewProfile)
  \/ \E h \in CallIds, pr \in Profiles : update_remote_host(h, pr)
  \/ \E h \in CallIds : delete_remote_host(h)
  \/ test_remote_connection
  \/ \E h \in CallIds : get_remote_tool_status(h)
  \/ \E h \in CallIds : browse_remote_directory(h)

SpecHost == HostInit /\ [][HostNext]_vars

\* ------------------------------------------- claims on the remote hosts
\* The command of worker p returns in this step.
Returns(p) == procs[p].pc # "done" /\ procs'[p].pc = "done"

\* C5: a sync_all_skills_to_remote or sync_selected_skills_to_remote
\* command for an existing host sets the status to syncing when it starts,
\* and when it returns the status is ok if it returned success and error
\* if it returned a failure (so never syncing).
C5_SyncLeavesOkOrError ==
  [][\A p \in Procs :
       /\ (procs[p].pc = "idle" /\ procs'[p].pc = "connect"
             /\ procs'[p].kind \in SyncCommands)
            => hosts'[procs'[p].host].status = "syncing"
       /\ (procs[p].pc \in {"connect", "list", "batch"}
             /\ procs[p].kind \in SyncCommands
             /\ Returns(p)
             /\ hosts'[procs[p].host] # NoHost)
            => hosts'[procs[p].host].status =
                 (IF procs'[p].res = "ok" THEN "ok" ELSE "error")]_vars

\* C6: a list_remote_skills command changes the status of its host only
\* when it succeeds and the status was error, and then to ok; from idle,
\* syncing or ok, and when the command fails, the status stays as it was.
C6_ListOnlyResetsError ==
  [][\A p \in Procs :
       (procs[p].kind = "list_remote_skills" /\ Returns(p)
          /\ hosts'[procs[p].host].status # hosts[procs[p].host].status)
         => /\ procs'[p].res = "ok"
            /\ hosts[procs[p].host].status = "error"
            /\ hosts'[procs[p].host].status = "ok"]_vars

\* A step of one of the handlers that are no sync attempt.
PassiveStep ==
  \/ list_remote_hosts
  \/ test_remote_connection
  \/ \E h \in CallIds : get_remote_tool_status(h)
  \/ \E h \in CallIds : browse_remote_directory(h)
  \/ \E h \in CallIds, pr \in Profiles : update_remote_host(h, pr)

SyncInFlight(p, h) ==
  /\ procs[p].kind \in SyncCommands
  /\ procs[p].host = h
  /\ procs[p].pc \in {"connect", "list", "batch"}

\* C32: with several commands on one host running in parallel, the status
\* of the host stays syncing for as long as a sync attempt on it is in
\* flight: no step of another command changes it to ok or error while
\* that attempt has not returned.
C32_SyncingWhileSyncInFlight ==
  [][\A p, q \in Procs, h \in HostIds :
       (/\ p # q
        /\ SyncInFlight(p, h)
        /\ procs'[p] = procs[p]
        /\ procs'[q] # procs[q]
        /\ hosts[h] # NoHost
        /\ hosts[h].status = "syncing")
         => hosts'[h].status = "syncing"]_vars

\* ------------------------------------------------ claims on the batch
\* The skills for which an upload was issued, in the order of the log.
UploadsIn(log) ==
  LET u == SelectSeq(log, LAMBDA o : o.op = "upload")
  IN [i \in 1..Len(u) |-> u[i].skill]

PreambleOk == bPc = "loop" \/ bResult \in {"ok", "err_all_failed"}

\* The remote holds nothing of skill n and no operation was issued for it.
RemoteUntouched(n) ==
  /\ remote.staged[n] = "none"
  /\ \A d \in SkillsDirs : remote.links[<<d, n>>] = 0
  /\ \A i \in 1..Len(ops) : ops[i].skill # n

\* Skill n was uploaded and linked into every requested known tool.
UploadedAndLinked(n) ==
  /\ remote.staged[n] = "full"
  /\ \A k \in 1..Len(bToolKeys) :
       adapters_find(bToolKeys[k]) =>
         remote.links[<<relative_skills_dir(bToolKeys[k]), n>>] = n

HasError(n) == \E i \in 1..Len(errors) : errors[i].skill = n

\* C1: once `echo $HOME` and `mkdir -p ~/.skillshub` have succeeded, every
\* skill of the list is visited exactly once, in input order, whatever
\* failed before it: the uploads issued are those of the existing skills
\* among the skills visited so far, in list order, and the function
\* returns only after the last skill was visited.
C1_EverySkillAttemptedInOrder ==
  PreambleOk =>
    /\ UploadsIn(ops) = SelectNames(SubSeq(bSkills, 1, bI), centralDir)
    /\ bPc = "done" => bI = Len(bSkills)

C1_Witness ==
  /\ bPc = "done"
  /\ PreambleOk
  /\ Len(bSkills) = 3
  /\ HasError(bSkills[1])
  /\ bSkills[3] \in Range(synced)

\* C2: when nothing fails but some local directories are missing, the
\* missing skills are skipped with no remote change, the call succeeds
\* and returns exactly the existing skills, in input order, each uploaded
\* and linked.
C2_MissingSkippedOthersSynced ==
  (bPc = "done" /\ PreambleOk /\ errors = <<>>) =>
    /\ bResult = "ok"
    /\ synced = SelectNames(bSkills, centralDir)
    /\ \A n \in Range(bSkills) \ centralDir : RemoteUntouched(n)
    /\ \A n \in Range(bSkills) \cap centralDir : UploadedAndLinked(n)

C2_Witness ==
  /\ bPc = "done"
  /\ PreambleOk
  /\ errors = <<>>
  /\ Len(bSkills) = 3
  /\ centralDir = {bSkills[1], bSkills[3]}
  /\ synced = <<bSkills[1], bSkills[3]>>
  /\ bToolKeys = <<"toolA", "toolC">>

\* C3 (as claimed): a non-empty batch of which no skill was uploaded and
\* linked returns an error, never Ok with an empty list.
C3_AllFailedIsError ==
  (bPc = "done" /\ bSkills # <<>>
     /\ \A n \in Range(bSkills) : ~UploadedAndLinked(n)) =>
    bResult \in {"err_exec", "err_all_failed"}

\* C4 (as claimed): every returned skill was uploaded and linked into
\* every requested known tool, and no skill with a failed step is returned.
C4_ReturnedAreSuccessful ==
  (bPc = "done" /\ bResult = "ok") =>
    \A n \in Range(synced) : UploadedAndLinked(n) /\ ~HasError(n)

\* ------------------------------------------- commands on local tools
\* Path::exists(): follows a symbolic link, so a link whose central
\* directory is gone does not exist.
exists(f, central, q) ==
  \/ f[q] = "dir"
  \/ f[q] = "link" /\ q[2] \in central

RmOutcomes == {"ok", "fail"}

\* remove_path_any(path): Ok without a removal when !p.exists(); else
\* remove_file for a symbolic link and remove_dir_all for a directory,
\* either of which can fail (io) and then leaves the entry.
remove_path_any(f, central, q, io) ==
  IF ~exists(f, central, q) THEN [fs |-> f, res |-> "ok"]
  ELSE IF io = "ok" THEN [fs |-> [f EXCEPT ![q] = "none"], res |-> "ok"]
  ELSE [fs |-> f, res |-> "err"]

\* Every failure in a command returns from it (`?`), so a call meets at
\* most one: of the is_tool_installed probe, of the filesystem, or of the
\* store after `budget` calls (budget = max: none).
OneFailure(probe_ok, io_ok, budget, max) ==
  /\ ~probe_ok => io_ok /\ budget = max
  /\ ~io_ok => budget = max

LocalInit ==
  /\ BatchIdle
  /\ HostIdle
  /\ UploadIdle
  /\ CustomIdle
  /\ centralDir = Names
  /\ installed \in SUBSET KnownTools
  /\ targets = [s \in SkillIds |-> [k \in DestKeys |-> NoTarget]]
  /\ fs = [q \in Paths |-> "none"]
  /\ lcall = NoCall
  /\ lops = <<>>

\* What sync_dir_for_tool_with_overwrite can do: link, copy, or fail.
EngineOutcomes == {"symlink", "copy", "fail"}

\* sync_dir_for_tool_with_overwrite(tool, source, target, overwrite): an
\* existing destination is an error unless overwrite, and is then removed
\* first; the result carries the mode that was used, an error its text.
sync_dir_for_tool_with_overwrite(f, q, overwrite, eng) ==
  IF f[q] # "none" /\ ~overwrite
    THEN [fs |-> f, res |-> "TARGET_EXISTS",
          msg |-> <<"target already exists", ": ", PathStr(q)>>]
  ELSE IF eng = "fail" THEN [fs |-> f, res |-> "err", msg |-> <<"io error">>]
  ELSE [fs |-> [f EXCEPT ![q] = IF eng = "symlink" THEN "link" ELSE "dir"],
        res |-> eng, msg |-> <<>>]

LOp(op, k, q, res) == [op |-> op, tool |-> k, path |-> q, res |-> res]

\* `for a in group` with an upsert for every member, installed or not.
RECURSIVE UpsertGroupNoSkip(_, _, _, _, _, _)
UpsertGroupNoSkip(st, s, group, i, inst, rec) ==
  IF i > Len(group) \/ st.res # "run" THEN st
  ELSE IF st.budget = 0 THEN [st EXCEPT !.res = "err"]
  ELSE UpsertGroupNoSkip(
         [st EXCEPT !.targets[s][group[i]] = rec, !.budget = @ - 1,
                    !.lops = Append(@, LOp("upsert_skill_target", group[i],
                                           rec.target_path, rec.mode))],
         s, group, i + 1, inst, rec)

\* `for a in group`: skip a tool that is not installed, else upsert its
\* row; budget is the number of store calls that succeed.
RECURSIVE UpsertGroup(_, _, _, _, _, _)
UpsertGroup(st, s, group, i, inst, rec) ==
  IF i > Len(group) \/ st.res # "run" THEN st
  ELSE IF group[i] \notin inst THEN UpsertGroup(st, s, group, i + 1, inst, rec)
  ELSE IF st.budget = 0 THEN [st EXCEPT !.res = "err"]
  ELSE UpsertGroup(
         [st EXCEPT !.targets[s][group[i]] = rec, !.budget = @ - 1,
                    !.lops = Append(@, LOp("upsert_skill_target", group[i],
                                           rec.target_path, rec.mode))],
         s, group, i + 1, inst, rec)

\* The text of an error of the store, and of an adapter probe.
StoreError == <<<<"store error">>>>

ProbeError == <<<<"failed to detect tool">>>>

\* A map_err that keeps the engine's text whatever it is.
SyncErrorPlain(msg, q) == <<msg>>

\* The map_err on the engine's error: TARGET_EXISTS|<target> when its text
\* contains "target already exists", else the text alone.
SyncError(msg, q) ==
  IF contains(msg, "target already exists")
    THEN <<<<"TARGET_EXISTS|", PathStr(q)>>>>
    ELSE <<msg>>

\* A check before the sync that does not ask whether the tool is installed.
SyncPrecheckNoInstalled(t, probe_ok, inst) ==
  IF ~adapters_find(t) THEN <<<<"unknown tool">>>>
  ELSE IF ~probe_ok THEN ProbeError
  ELSE <<>>

\* The checks before the sync: adapter_by_key(tool) or "unknown tool",
\* is_tool_installed(adapter)?, and TOOL_NOT_INSTALLED|<key> when it is
\* not.  Returns the error, <<>> for none.
SyncPrecheck(t, probe_ok, inst) ==
  IF ~adapters_find(t) THEN <<<<"unknown tool">>>>
  ELSE IF ~probe_ok THEN ProbeError
  ELSE IF t \notin inst THEN <<<<"TOOL_NOT_INSTALLED|", t>>>>
  ELSE <<>>

\* sync_skill_to_tool(sourcePath, skillId, tool, name, overwrite), called
\* with the central directory and the name of the skill.
sync_skill_to_tool(s, t, overwrite) ==
  /\ del.pc = "idle"
  /\ s \in centralDir
  /\ \E probe_ok \in BOOLEAN, eng \in EngineOutcomes,
        budget \in 0..Len(adapters_sharing_skills_dir(t)) :
       /\ OneFailure(probe_ok, eng # "fail", budget, Len(adapters_sharing_skills_dir(t)))
       /\ LET q == TargetPath(t, s)
              r == sync_dir_for_tool_with_overwrite(fs, q, overwrite, eng)
              write == LOp("sync_dir_for_tool_with_overwrite", t, q, r.res)
              st == UpsertGroup([targets |-> targets, budget |-> budget,
                                 lops |-> <<write>>, res |-> "run"],
                                s, adapters_sharing_skills_dir(t), 1, installed,
                                SkillTargetRecord(q, r.res))
              Err(e) == Call("sync_skill_to_tool", s, t, "err", "", NoPath,
                             format_anyhow_error(e))
              pre == SyncPrecheck(t, probe_ok, installed)
          IN IF pre # <<>>
               THEN /\ lcall' = Err(pre)
                    /\ lops' = <<>>
                    /\ UNCHANGED <<fs, targets>>
             ELSE IF r.res \notin {"symlink", "copy"}
               THEN /\ lcall' = Err(SyncError(r.msg, q))
                    /\ lops' = <<write>>
                    /\ UNCHANGED <<fs, targets>>
             ELSE /\ fs' = r.fs
                  /\ targets' = st.targets
                  /\ lops' = st.lops
                  /\ lcall' = IF st.res = "err" THEN Err(StoreError)
                              ELSE Call("sync_skill_to_tool", s, t, "ok", r.res, q, <<>>)
  /\ UNCHANGED <<centralDir, installed, notLocal>>

\* One turn of `for k in &group_tool_keys` with a removal for every row,
\* whatever `removed` is.
UnsyncKeyRemoveEach(st, s, k, central, io) ==
  IF st.res # "run" THEN st
  ELSE IF st.budget = 0 THEN [st EXCEPT !.res = "err"]
  ELSE
    LET rec == get_skill_target(st.targets, s, k)
        r == remove_path_any(st.fs, central, rec.target_path, io)
        st1 == [st EXCEPT !.budget = @ - 1]
        st2 == [st1 EXCEPT !.fs = r.fs, !.removed = TRUE,
                           !.lops = Append(@, LOp("remove_path_any", k, rec.target_path, r.res))]
    IN IF rec = NoTarget THEN st1
       ELSE IF r.res = "err" THEN [st2 EXCEPT !.res = "err"]
       ELSE IF st2.budget = 0 THEN [st2 EXCEPT !.res = "err"]
       ELSE [st2 EXCEPT !.targets[s][k] = NoTarget, !.budget = @ - 1,
                        !.lops = Append(@, LOp("delete_skill_target", k, rec.target_path, "ok"))]

\* One turn of `for k in &group_tool_keys`: get_skill_target(skillId, k)?;
\* for a row, remove_path_any(target_path)? unless `removed`, then
\* delete_skill_target(skillId, k)?. budget is the number of store calls
\* that succeed.
UnsyncKey(st, s, k, central, io) ==
  IF st.res # "run" THEN st
  ELSE IF st.budget = 0 THEN [st EXCEPT !.res = "err"]
  ELSE
    LET rec == get_skill_target(st.targets, s, k)
        r == remove_path_any(st.fs, central, rec.target_path, io)
        st1 == [st EXCEPT !.budget = @ - 1]
        st2 == IF st1.removed THEN st1
               ELSE [st1 EXCEPT !.fs = r.fs, !.removed = TRUE,
                                !.lops = Append(@, LOp("remove_path_any", k, rec.target_path, r.res))]
    IN IF rec = NoTarget THEN st1
       ELSE IF ~st1.removed /\ r.res = "err" THEN [st2 EXCEPT !.res = "err"]
       ELSE IF st2.budget = 0 THEN [st2 EXCEPT !.res = "err"]
       ELSE [st2 EXCEPT !.targets[s][k] = NoTarget, !.budget = @ - 1,
                        !.lops = Append(@, LOp("delete_skill_target", k, rec.target_path, "ok"))]

RECURSIVE UnsyncLoop(_, _, _, _, _, _)
UnsyncLoop(st, s, keys, i, central, io) ==
  IF i > Len(keys) THEN st
  ELSE UnsyncLoop(UnsyncKey(st, s, keys[i], central, io), s, keys, i + 1, central, io)

\* group_tool_keys: the keys of the adapter's group, or the key itself
\* when no adapter has it.
group_tool_keys(t) ==
  IF adapters_find(t) THEN adapters_sharing_skills_dir(t) ELSE <<t>>

\* unsync_skill_from_tool(skillId, tool)
unsync_skill_from_tool(s, t) ==
  /\ del.pc = "idle"
  /\ \E probe_ok \in BOOLEAN, io \in RmOutcomes,
        budget \in 0..(2 * Len(group_tool_keys(t))) :
       /\ OneFailure(probe_ok, io = "ok", budget, 2 * Len(group_tool_keys(t)))
       /\ LET keys == group_tool_keys(t)
              st == UnsyncLoop([targets |-> targets, fs |-> fs, removed |-> FALSE,
                                lops |-> <<>>, budget |-> budget, res |-> "run"],
                               s, keys, 1, centralDir, io)
              ret(res) == Call("unsync_skill_from_tool", s, t, res, "", NoPath,
                               IF res = "ok" THEN <<>>
                               ELSE IF ~probe_ok THEN format_anyhow_error(ProbeError)
                               ELSE IF io # "ok" THEN format_anyhow_error(<<<<"io error">>>>)
                               ELSE format_anyhow_error(StoreError))
          IN IF adapters_find(t) /\ ~probe_ok
               THEN /\ lcall' = ret("err")
                    /\ lops' = <<>>
                    /\ UNCHANGED <<fs, targets>>
               ELSE IF adapters_find(t) /\ Range(keys) \cap installed = {}
               THEN /\ lcall' = ret("ok")
                    /\ lops' = <<>>
                    /\ UNCHANGED <<fs, targets>>
               ELSE /\ fs' = st.fs
                    /\ targets' = st.targets
                    /\ lops' = st.lops
                    /\ lcall' = ret(IF st.res = "err" THEN "err" ELSE "ok")
  /\ UNCHANGED <<centralDir, installed, notLocal>>

\* The user deletes the central directory of a skill by hand.
DeleteCentralByHand(s) ==
  /\ s \in centralDir
  /\ centralDir' = centralDir \ {s}
  /\ lcall' = NoCall
  /\ lops' = <<>>
  /\ UNCHANGED <<installed, targets, fs, notLocal>>

\* The user deletes the entry at a destination by hand.
DeleteTargetByHand(q) ==
  /\ fs[q] # "none"
  /\ fs' = [fs EXCEPT ![q] = "none"]
  /\ lcall' = NoCall
  /\ lops' = <<>>
  /\ UNCHANGED <<centralDir, installed, targets, notLocal>>

\* A tool is installed or uninstalled.
SetInstalled(t) ==
  /\ installed' = IF t \in installed THEN installed \ {t} ELSE installed \cup {t}
  /\ lcall' = NoCall
  /\ lops' = <<>>
  /\ UNCHANGED <<centralDir, targets, fs, notLocal>>

LocalNext ==
  \/ \E s \in SkillIds, t \in ToolKeys, o \in BOOLEAN : sync_skill_to_tool(s, t, o)
  \/ \E s \in SkillIds, t \in ToolKeys : unsync_skill_from_tool(s, t)
  \/ \E s \in SkillIds : DeleteCentralByHand(s)
  \/ \E q \in Paths : DeleteTargetByHand(q)
  \/ \E t \in KnownTools : SetInstalled(t)

SpecLocal == LocalInit /\ [][LocalNext]_vars

\* ------------------------------------------- commands on custom targets
CustomInit ==
  /\ BatchIdle
  /\ HostIdle
  /\ UploadIdle
  /\ CustomIdle
  /\ centralDir = Names
  /\ installed = KnownTools
  /\ targets = [s \in SkillIds |-> [k \in DestKeys |-> NoTarget]]
  /\ fs = [q \in Paths |-> "none"]
  /\ lcall = NoCall
  /\ lops = <<>>

\* add_custom_target(label, path, remoteHostId), whose id is a fresh uuid
\* (no row of the store has it): a remote target needs an
\* absolute path and an existing host row; a local one is expanded, must
\* be absolute, and its directory is created; then the row is written.
\* `fail` is the step that fails, if one does.
add_custom_target(id, rh) ==
  /\ del.pc = "idle"
  /\ customs[id] = NoCustom
  /\ \A s \in SkillIds : targets[s][CustomKey(id)] = NoTarget
  /\ \E fail \in {"none", "not_absolute", "store_get", "create_dir_all", "store_upsert"} :
       LET Err(e) == Call("add_custom_target", 0, id, "err", "", NoPath,
                          format_anyhow_error(e))
           e == IF fail = "not_absolute"
                  THEN <<<<"custom target path must be absolute">>>>
                ELSE IF rh # "" /\ fail = "store_get" THEN StoreError
                ELSE IF rh # "" /\ get_remote_host_by_id(hosts, rh) = NoHost
                  THEN <<<<"remote host not found">>>>
                ELSE IF rh = "" /\ fail = "create_dir_all"
                  THEN <<<<"failed to create directory ", CustomDir>>, <<"io error">>>>
                ELSE IF fail = "store_upsert" THEN StoreError
                ELSE <<>>
       IN /\ fail = "store_get" => rh # ""
          /\ fail = "create_dir_all" => rh = ""
          /\ IF e = <<>>
               THEN /\ customs' = [customs EXCEPT ![id] = CustomTargetRecord(CustomDir, rh)]
                    /\ lcall' = Call("add_custom_target", 0, id, "ok", "", NoPath, <<>>)
               ELSE /\ customs' = customs
                    /\ lcall' = Err(e)
  /\ lops' = <<>>
  /\ UNCHANGED <<centralDir, installed, targets, fs, skillRows, del, batchVars, hostVars, uploadVars, moreVars>>

\* sync_dir_hybrid_with_overwrite(source, target, overwrite): the engine
\* without a tool.
sync_dir_hybrid_with_overwrite(f, q, overwrite, eng) ==
  sync_dir_for_tool_with_overwrite(f, q, overwrite, eng)

\* The steps of sync_skill_to_custom_target that can fail.
CustomSyncFailures ==
  {"none", "store_get", "host_get", "session", "echo_home", "mkdir",
   "upload_clean", "upload_partial", "link_mkdir", "link_ln", "engine", "store_upsert"}

\* The remote branch of sync_skill_to_custom_target, up to the upsert:
\* `echo $HOME`, `mkdir -p <home>/.skillshub/<name>`, sftp_upload_dir,
\* create_remote_symlink(<central>, <ct.path>/<name>).  Returns
\* [ok, remote, ops].
RemoteCustomSync(rem, s, local_exists, fail) ==
  LET log1 == <<Op("echo_home", s, "")>>
      log2 == Append(log1, Op("mkdir_central", s, ""))
      rem2 == [rem EXCEPT !.staged[s] = IF @ = "none" THEN "partial" ELSE @]
      up == sftp_upload_dir(rem2, log2, s, local_exists,
                            IF fail = "upload_clean" THEN "fail_clean"
                            ELSE IF fail = "upload_partial" THEN "fail_partial" ELSE "ok")
      ln == create_remote_symlink(up.remote, up.ops, s, CustomDir, s,
                                  IF fail = "link_mkdir" THEN "mkdir_fail"
                                  ELSE IF fail = "link_ln" THEN "ln_fail" ELSE "ok")
  IN IF fail = "echo_home" THEN [ok |-> FALSE, remote |-> rem, ops |-> log1]
     ELSE IF fail = "mkdir" THEN [ok |-> FALSE, remote |-> rem, ops |-> log2]
     ELSE IF ~up.ok THEN up
     ELSE ln

\* sync_skill_to_custom_target(sourcePath, skillId, customTargetId, name,
\* overwrite), called with the central directory and the name of the skill.
sync_skill_to_custom_target(s, id, overwrite) ==
  /\ del.pc = "idle"
  /\ \E fail \in CustomSyncFailures, eng \in {"symlink", "copy"} :
       LET ct == get_custom_target_by_id(customs, id)
           key == CustomKey(id)
           q == <<CustomDir, s>>
           Err(e) == Call("sync_skill_to_custom_target", s, id, "err", "", NoPath,
                          format_anyhow_error(e))
           Ok(mode) == Call("sync_skill_to_custom_target", s, id, "ok", mode, q, <<>>)
           rs == RemoteCustomSync(remote, s, s \in centralDir, fail)
           r == sync_dir_hybrid_with_overwrite(fs, q, overwrite,
                                               IF fail = "engine" THEN "fail" ELSE eng)
       IN IF fail = "store_get"
            THEN /\ eng = "symlink"
                 /\ lcall' = Err(StoreError)
                 /\ lops' = <<>>
                 /\ UNCHANGED <<fs, targets, remote, ops>>
          ELSE IF ct = NoCustom
            THEN /\ eng = "symlink"
                 /\ fail = "none"
                 /\ lcall' = Err(<<<<"custom target not found">>>>)
                 /\ lops' = <<>>
                 /\ UNCHANGED <<fs, targets, remote, ops>>
          ELSE IF ct.remote_host_id # ""
            THEN /\ eng = "symlink"
                 /\ fail # "engine"
                 /\ lops' = <<>>
                 /\ fs' = fs
                 /\ IF fail = "host_get"
                      THEN /\ lcall' = Err(StoreError)
                           /\ UNCHANGED <<targets, remote, ops>>
                    ELSE IF get_remote_host_by_id(hosts, ct.remote_host_id) = NoHost
                      THEN /\ fail = "none"
                           /\ lcall' = Err(<<<<"remote host not found">>>>)
                           /\ UNCHANGED <<targets, remote, ops>>
                    ELSE IF fail = "session"
                      THEN /\ lcall' = Err(<<<<"SSH connect failed">>>>)
                           /\ UNCHANGED <<targets, remote, ops>>
                    ELSE /\ remote' = rs.remote
                         /\ ops' = rs.ops
                         /\ IF ~rs.ok
                              THEN /\ lcall' = Err(<<<<"remote command failed">>>>)
                                   /\ targets' = targets
                            ELSE IF fail = "store_upsert"
                              THEN /\ lcall' = Err(StoreError)
                                   /\ targets' = targets
                            ELSE /\ lcall' = Ok("symlink")
                                 /\ targets' = [targets EXCEPT ![s][key] =
                                                  SkillTargetRecord(q, "symlink")]
          ELSE /\ s \in centralDir
               /\ fail \in {"none", "engine", "store_upsert"}
               /\ fail = "engine" => eng = "symlink"
               /\ UNCHANGED <<remote, ops>>
               /\ lops' = <<LOp("sync_dir_hybrid_with_overwrite", key, q, r.res)>>
               /\ IF r.res \notin {"symlink", "copy"}
                    THEN /\ lcall' = Err(SyncError(r.msg, q))
                         /\ UNCHANGED <<fs, targets>>
                  ELSE /\ fs' = r.fs
                       /\ IF fail = "store_upsert"
                            THEN /\ lcall' = Err(StoreError)
                                 /\ targets' = targets
                            ELSE /\ lcall' = Ok(r.res)
                                 /\ targets' = [targets EXCEPT ![s][key] =
                                                  SkillTargetRecord(q, r.res)]
  /\ UNCHANGED <<centralDir, installed, customs, skillRows, del, bSkills, bToolKeys,
                 bPc, bI, synced, errors, bResult, hostVars, uploadVars, moreVars>>

\* The remote removal that drops the result of `rm -rf`.
ssh_rm_rf_dropped(rem, q, rm_ok) ==
  [ok |-> TRUE,
   remote |-> IF rm_ok THEN [rem EXCEPT !.links[q] = 0, !.inside = {e \in @ : e[1] # q}]
              ELSE rem]

\* ssh_exec(&sess, "rm -rf '<target_path>'")?: [ok, remote].
ssh_rm_rf(rem, q, rm_ok) ==
  [ok |-> rm_ok,
   remote |-> IF rm_ok THEN [rem EXCEPT !.links[q] = 0, !.inside = {e \in @ : e[1] # q}]
              ELSE rem]

\* unsync_skill_from_custom_target(skillId, customTargetId): with a record,
\* a remote target is removed by `rm -rf` over an SSH session (`connect` in
\* the log is create_ssh_session), a local one by
\* remove_path_any, and for a custom target that no longer exists the
\* removal is tried locally and its result dropped; then the record goes.
unsync_skill_from_custom_target(s, id) ==
  /\ del.pc = "idle"
  /\ \E fail \in {"none", "store_get_ct", "store_get_target", "host_get", "session",
                  "rm", "io", "store_delete"} :
       LET ct == get_custom_target_by_id(customs, id)
           key == CustomKey(id)
           target == get_skill_target(targets, s, key)
           q == target.target_path
           rm == remove_path_any(fs, centralDir, q, IF fail = "io" THEN "fail" ELSE "ok")
           Err(e) == Call("unsync_skill_from_custom_target", s, id, "err", "", NoPath,
                          format_anyhow_error(e))
           Ok == Call("unsync_skill_from_custom_target", s, id, "ok", "", NoPath, <<>>)
           DeleteRecord ==
             IF fail = "store_delete"
               THEN /\ lcall' = Err(StoreError)
                    /\ targets' = targets
               ELSE /\ lcall' = Ok
                    /\ targets' = [targets EXCEPT ![s][key] = NoTarget]
       IN IF fail \in {"store_get_ct", "store_get_target"}
            THEN /\ lcall' = Err(StoreError)
                 /\ lops' = <<>>
                 /\ UNCHANGED <<fs, targets, remote, ops>>
          ELSE IF target = NoTarget
            THEN /\ fail = "none"
                 /\ lcall' = Ok
                 /\ lops' = <<>>
                 /\ UNCHANGED <<fs, targets, remote, ops>>
          ELSE IF ct = NoCustom
            THEN /\ fail \in {"none", "io", "store_delete"}
                 /\ fs' = rm.fs
                 /\ lops' = <<LOp("remove_path_any", key, q, rm.res)>>
                 /\ UNCHANGED <<remote, ops>>
                 /\ DeleteRecord
          ELSE IF ct.remote_host_id # ""
            THEN /\ fail \in {"none", "host_get", "session", "rm", "store_delete"}
                 /\ fs' = fs
                 /\ lops' = <<>>
                 /\ IF fail = "host_get"
                      THEN /\ lcall' = Err(StoreError)
                           /\ UNCHANGED <<targets, remote, ops>>
                    ELSE IF get_remote_host_by_id(hosts, ct.remote_host_id) = NoHost
                      THEN /\ fail = "none"
                           /\ lcall' = Err(<<<<"remote host not found">>>>)
                           /\ UNCHANGED <<targets, remote, ops>>
                    ELSE IF fail = "session"
                      THEN /\ lcall' = Err(<<<<"SSH connect failed">>>>)
                           /\ ops' = <<Op("connect", 0, "")>>
                           /\ UNCHANGED <<targets, remote>>
                    ELSE LET rmr == ssh_rm_rf(remote, q, fail # "rm") IN
                         /\ remote' = rmr.remote
                         /\ ops' = <<Op("connect", 0, ""), Op("rm_rf", q[2], q[1])>>
                         /\ IF ~rmr.ok
                              THEN /\ lcall' = Err(<<<<"remote command failed">>>>)
                                   /\ targets' = targets
                              ELSE DeleteRecord
          ELSE /\ fail \in {"none", "io", "store_delete"}
               /\ lops' = <<LOp("remove_path_any", key, q, rm.res)>>
               /\ UNCHANGED <<remote, ops>>
               /\ IF rm.res = "err"
                    THEN /\ lcall' = Err(<<<<"io error">>>>)
                         /\ UNCHANGED <<fs, targets>>
                    ELSE /\ fs' = rm.fs
                         /\ DeleteRecord
  /\ UNCHANGED <<centralDir, installed, customs, skillRows, del, bSkills, bToolKeys,
                 bPc, bI, synced, errors, bResult, hostVars, uploadVars, moreVars>>

\* delete_custom_target(targetId): for every skill with a record under
\* custom:<id>, remove_path_any on the record's path with the result
\* dropped; then the custom_targets row is deleted.
delete_custom_target(id) ==
  /\ del.pc = "idle"
  /\ \E fail \in {"none", "store_list", "store_get", "io", "store_delete"} :
       LET key == CustomKey(id)
           Synced == {s \in skillRows : get_skill_target(targets, s, key) # NoTarget}
           Hit(q) == \E s \in Synced : get_skill_target(targets, s, key).target_path = q
           Err(e) == Call("delete_custom_target", 0, id, "err", "", NoPath,
                          format_anyhow_error(e))
           Ok == Call("delete_custom_target", 0, id, "ok", "", NoPath, <<>>)
       IN /\ fail = "store_get" => skillRows # {}
          /\ fail = "io" => Synced # {}
          /\ IF fail \in {"store_list", "store_get"}
               THEN /\ lcall' = Err(StoreError)
                    /\ lops' = <<>>
                    /\ UNCHANGED <<fs, customs>>
               ELSE /\ fs' = [q \in Paths |->
                                IF Hit(q)
                                  THEN remove_path_any(fs, centralDir, q,
                                         IF fail = "io" THEN "fail" ELSE "ok").fs[q]
                                  ELSE fs[q]]
                    /\ lops' = <<>>
                    /\ IF fail = "store_delete"
                         THEN /\ lcall' = Err(StoreError)
                              /\ customs' = customs
                         ELSE /\ lcall' = Ok
                              /\ customs' = [customs EXCEPT ![id] = NoCustom]
  /\ UNCHANGED <<centralDir, installed, targets, skillRows, del, remote, ops, bSkills,
                 bToolKeys, bPc, bI, synced, errors, bResult, hostVars, uploadVars, moreVars>>

\* ------------------------------------------------- delete_managed_skill
\* The command runs in steps, and the commands are taken one at a time:
\* another command starts when delete_managed_skill is not running.
\* The message of the final bail: the heading and one line per failure.
RemoveFailuresError(failures) ==
  <<<<"managed record deleted, but cleaning some tool directories failed:">>
    \o failures>>

DeleteCall(s, res, e) ==
  Call("delete_managed_skill", s, "", res, "", NoPath,
       IF res = "ok" THEN <<>> ELSE format_anyhow_error(e))

\* delete_managed_skill(skillId), entry: list_skill_targets(skillId)?.
DeleteStart(s) ==
  /\ del.pc = "idle"
  /\ \E fail \in BOOLEAN :
       IF fail
         THEN /\ lcall' = DeleteCall(s, "err", StoreError)
              /\ del' = del
         ELSE /\ lcall' = NoCall
              /\ del' = [pc |-> "targets", skill |-> s,
                         todo |-> {[tool |-> k, target_path |-> targets[s][k].target_path] :
                                     k \in {x \in DestKeys : targets[s][x] # NoTarget}},
                         remove_failures |-> <<>>]
  /\ lops' = <<>>
  /\ UNCHANGED <<centralDir, installed, targets, fs, customs, skillRows, remote, ops,
                 bSkills, bToolKeys, bPc, bI, synced, errors, bResult, hostVars, uploadVars, moreVars>>

\* One turn of `for target in targets`: remove_path_any on the path the
\* listed record holds; a failure is pushed and the loop goes on.
DeleteRemoveTarget ==
  /\ del.pc = "targets"
  /\ \E target \in del.todo, io \in RmOutcomes :
       LET q == target.target_path
           k == target.tool
           rm == remove_path_any(fs, centralDir, q, io)
       IN /\ fs' = rm.fs
          /\ lops' = <<LOp("remove_path_any", k, q, rm.res)>>
          /\ del' = [del EXCEPT
                       !.todo = @ \ {target},
                       !.remove_failures =
                          IF rm.res = "err" THEN @ \o <<"\n- ", PathStr(q), ": ", "io error">>
                          ELSE @]
  /\ lcall' = NoCall
  /\ UNCHANGED <<centralDir, installed, targets, customs, skillRows, remote, ops,
                 bSkills, bToolKeys, bPc, bI, synced, errors, bResult, hostVars, uploadVars, moreVars>>

\* The end of the command that forgets the failures of the loop.
DeleteVerdictForgetful(d) == DeleteCall(d.skill, "ok", <<>>)

\* The bail or the Ok that ends the command.
DeleteVerdict(d) ==
  IF d.remove_failures # <<>>
    THEN DeleteCall(d.skill, "err", RemoveFailuresError(d.remove_failures))
    ELSE DeleteCall(d.skill, "ok", <<>>)

\* After the loop: get_skill_by_id(skillId)?; with a record, the central
\* directory is removed if it exists (remove_dir_all?).
DeleteCentral ==
  /\ del.pc = "targets"
  /\ del.todo = {}
  /\ \E fail \in {"none", "store_get", "io"} :
       /\ fail = "io" => del.skill \in skillRows /\ del.skill \in centralDir
       /\ IF fail = "store_get"
            THEN /\ lcall' = DeleteCall(del.skill, "err", StoreError)
                 /\ del' = NoDelete
                 /\ centralDir' = centralDir
          ELSE IF del.skill \notin skillRows
            THEN /\ lcall' = DeleteVerdict(del)
                 /\ del' = NoDelete
                 /\ centralDir' = centralDir
          ELSE IF fail = "io"
            THEN /\ lcall' = DeleteCall(del.skill, "err", <<<<"io error">>>>)
                 /\ del' = NoDelete
                 /\ centralDir' = centralDir
          ELSE /\ lcall' = NoCall
               /\ del' = [del EXCEPT !.pc = "row"]
               /\ centralDir' = centralDir \ {del.skill}
  /\ lops' = <<>>
  /\ UNCHANGED <<installed, targets, fs, customs, skillRows, remote, ops,
                 bSkills, bToolKeys, bPc, bI, synced, errors, bResult, hostVars, uploadVars, moreVars>>

\* store.delete_skill(skillId)?, which takes the skill_targets rows of the
\* skill with it (cascade); then the bail or the Ok.
DeleteSkillRow ==
  /\ del.pc = "row"
  /\ \E fail \in BOOLEAN :
       IF fail
         THEN /\ lcall' = DeleteCall(del.skill, "err", StoreError)
              /\ UNCHANGED <<skillRows, targets>>
         ELSE /\ lcall' = DeleteVerdict(del)
              /\ skillRows' = skillRows \ {del.skill}
              /\ targets' = [targets EXCEPT ![del.skill] = [k \in DestKeys |-> NoTarget]]
  /\ del' = NoDelete
  /\ lops' = <<>>
  /\ UNCHANGED <<centralDir, installed, fs, customs, remote, ops,
                 bSkills, bToolKeys, bPc, bI, synced, errors, bResult, hostVars, uploadVars, moreVars>>

\* The tool the skill is also synced to while custom targets are in use.
CustomSpecTools == {"toolC"}

CustomNext ==
  \/ \E id \in CustomIds, rh \in {""} \cup HostIds : add_custom_target(id, rh)
  \/ \E s \in SkillIds, id \in CustomIds, o \in BOOLEAN :
       sync_skill_to_custom_target(s, id, o)
  \/ \E s \in SkillIds, t \in CustomSpecTools, o \in BOOLEAN : sync_skill_to_tool(s, t, o)
  \/ \E h \in HostIds : add_remote_host(h, NewProfile)
  \/ \E s \in SkillIds, t \in CustomSpecTools : unsync_skill_from_tool(s, t)
  \/ \E s \in SkillIds, id \in CustomIds : unsync_skill_from_custom_target(s, id)
  \/ \E id \in CustomIds : delete_custom_target(id)
  \/ \E s \in SkillIds : DeleteStart(s)
  \/ DeleteRemoveTarget
  \/ DeleteCentral
  \/ DeleteSkillRow

SpecCustom == CustomInit /\ [][CustomNext]_vars

\* The commands on custom targets alone, with the host row of a remote
\* custom target deleted under it.
UnsyncNext ==
  \/ \E id \in CustomIds, rh \in {""} \cup HostIds : add_custom_target(id, rh)
  \/ \E s \in SkillIds, id \in CustomIds, o \in BOOLEAN :
       sync_skill_to_custom_target(s, id, o)
  \/ \E h \in HostIds : add_remote_host(h, NewProfile)
  \/ \E h \in HostIds : delete_remote_host(h)
  \/ \E s \in SkillIds, id \in CustomIds : unsync_skill_from_custom_target(s, id)
  \/ \E id \in CustomIds : delete_custom_target(id)

SpecUnsync == CustomInit /\ [][UnsyncNext]_vars

\* C35: unsync_skill_from_custom_target deletes the record only after the
\* removal step.  Whenever it returns an error the record is retained; for
\* a remote custom target a missing host row gives an error with no
\* session opened, and the record goes only after `rm -rf` has run in a
\* session and removed the target; for a local one only after
\* remove_path_any succeeded; with no record for the pair nothing changes
\* and no session is opened; with the custom target gone the record is
\* deleted whatever the removal returned.
C35_RecordDeletedAfterRemoval ==
  [][\A s \in SkillIds, id \in CustomIds :
       (/\ lcall'.op = "unsync_skill_from_custom_target"
        /\ lcall'.skill = s
        /\ lcall'.tool = id
        /\ unsync_skill_from_custom_target(s, id)) =>
         LET key == CustomKey(id)
             target == targets[s][key]
             ct == customs[id]
             q == target.target_path
             is_remote == ct # NoCustom /\ ct.remote_host_id # ""
         IN /\ lcall'.res = "err" => targets' = targets
            /\ target = NoTarget =>
                 /\ targets' = targets /\ fs' = fs /\ remote' = remote
                 /\ ops' = ops /\ lops' = <<>>
            /\ (target # NoTarget /\ lcall'.res = "ok") => targets'[s][key] = NoTarget
            /\ (target # NoTarget /\ is_remote) =>
                 /\ hosts[ct.remote_host_id] = NoHost
                      => lcall'.res = "err" /\ ops' = ops /\ remote' = remote
                 /\ targets'[s][key] = NoTarget
                      => /\ ops' = <<Op("connect", 0, ""), Op("rm_rf", q[2], q[1])>>
                         /\ remote'.links[q] = 0
                 /\ remote'.links[q] # 0 => lcall'.res = "err"
            /\ (target # NoTarget /\ ct # NoCustom /\ ~is_remote) =>
                 /\ targets'[s][key] = NoTarget
                      => /\ Len(lops') = 1
                         /\ lops'[1].op = "remove_path_any" /\ lops'[1].res # "err"
                         /\ ops' = ops
            /\ (target # NoTarget /\ ct = NoCustom) =>
                 /\ lcall'.res = "err" => lcall'.err = format_anyhow_error(StoreError)
                 /\ ops' = ops]_vars

\* The `rm -rf` of a remote custom target failed in its session: the call
\* returned the error and the record of the pair is still there.
C35_Witness ==
  /\ lcall.op = "unsync_skill_from_custom_target"
  /\ lcall.res = "err"
  /\ lcall.err = format_anyhow_error(<<<<"remote command failed">>>>)
  /\ ops = <<Op("connect", 0, ""), Op("rm_rf", 1, CustomDir)>>
  /\ targets[1][CustomKey("c1")] # NoTarget
  /\ remote.links[<<CustomDir, 1>>] # 0

\* ------------------------------------------------- claims on unsync
\* The members of the tool's shared-destination group.
GroupOf(t) == Range(adapters_sharing_skills_dir(t))

\* The entries of the log of one kind.
LOpsOf(log, op) == SelectSeq(log, LAMBDA o : o.op = op)

\* unsync_skill_from_tool(s, t) returns in this step.
UnsyncReturns(s, t) ==
  /\ lcall'.op = "unsync_skill_from_tool"
  /\ lcall'.skill = s
  /\ lcall'.tool = t

\* No member of the group of t has a row for skill s.
NoGroupRecord(tg, s, t) == \A k \in GroupOf(t) : tg[s][k] = NoTarget

\* C8: when the removal of the physical path fails in an
\* unsync_skill_from_tool call, the call still deletes the SyncTarget row
\* of every member of the tool's group: none remains when it has returned.
C8_RecordsDeletedWhenRemovalFails ==
  [][\A s \in SkillIds, t \in KnownTools :
       (/\ UnsyncReturns(s, t)
        /\ \E i \in 1..Len(lops') :
             lops'[i].op = "remove_path_any" /\ lops'[i].res = "err")
         => NoGroupRecord(targets', s, t)]_vars

\* The skill is synced to the group of t (a member has a row) and a member
\* of the group is installed.
SyncedToGroup(s, t) ==
  /\ \E k \in GroupOf(t) : targets[s][k] # NoTarget
  /\ GroupOf(t) \cap installed # {}

\* C9 as stated: for a skill synced to a group with an installed member,
\* one unsync_skill_from_tool call performs the removal of the target path
\* exactly once, and when it succeeds no member of the group has a row.
C9_RemovalExactlyOnce ==
  [][\A s \in SkillIds, t \in KnownTools :
       (UnsyncReturns(s, t) /\ SyncedToGroup(s, t))
         => /\ Len(LOpsOf(lops', "remove_path_any")) = 1
            /\ lcall'.res = "ok" => NoGroupRecord(targets', s, t)]_vars

\* C9 amended: for a skill synced to a group with an installed member, one
\* unsync_skill_from_tool call performs the removal of the target path at
\* most once, never once per member; a call that succeeds has performed it
\* exactly once and has deleted the row of every member that had one.
C9_RemovalAtMostOnce ==
  [][\A s \in SkillIds, t \in KnownTools :
       (UnsyncReturns(s, t) /\ SyncedToGroup(s, t))
         => /\ Len(LOpsOf(lops', "remove_path_any")) <= 1
            /\ lcall'.res = "ok" =>
                 /\ Len(LOpsOf(lops', "remove_path_any")) = 1
                 /\ NoGroupRecord(targets', s, t)
                 /\ \A k \in GroupOf(t) :
                      targets[s][k] # NoTarget =>
                        \E i \in 1..Len(lops') :
                          /\ lops'[i].op = "delete_skill_target"
                          /\ lops'[i].tool = k]_vars

\* An unsync that succeeded on a group of two members that both had a row:
\* one removal, two rows deleted.
C9_Witness ==
  /\ lcall.op = "unsync_skill_from_tool"
  /\ lcall.res = "ok"
  /\ Len(LOpsOf(lops, "remove_path_any")) = 1
  /\ Len(LOpsOf(lops, "delete_skill_target")) = 2
  /\ NoGroupRecord(targets, lcall.skill, lcall.tool)

\* C10: an unsync_skill_from_tool that returns success for a synced
\* (skill, tool) pair leaves no entry at the destination path, not even a
\* dangling link, and no row for the pair, also after the entry or the
\* central directory was deleted by hand; a second call that returns
\* success leaves the filesystem and the rows as the first left them.
C10_UnsyncIsComplete ==
  [][\A s \in SkillIds, t \in KnownTools :
       (UnsyncReturns(s, t) /\ lcall'.res = "ok")
         => /\ targets[s][t] # NoTarget =>
                 /\ fs'[targets[s][t].target_path] = "none"
                 /\ targets'[s][t] = NoTarget
            /\ (lcall = lcall' /\ targets[s][t] = NoTarget) =>
                 fs' = fs /\ targets' = targets]_vars

\* ------------------------------------------- claims on sync to a tool
\* sync_skill_to_tool(s, t) returns in this step.
SyncReturns(s, t) ==
  /\ lcall'.op = "sync_skill_to_tool"
  /\ lcall'.skill = s
  /\ lcall'.tool = t

\* C11: when sync_skill_to_tool succeeds for a tool, every installed member
\* of the tool's group has a row for the skill with the target path and
\* the concrete mode returned to the caller, the row of a member that is
\* not installed is as it was, and the destination was written once.
C11_GroupRecordsAgree ==
  [][\A s \in SkillIds, t \in KnownTools :
       (SyncReturns(s, t) /\ lcall'.res = "ok")
         => /\ lcall'.target_path = TargetPath(t, s)
            /\ lcall'.mode_used \in {"symlink", "junction", "copy"}
            /\ fs'[lcall'.target_path] =
                 (IF lcall'.mode_used = "copy" THEN "dir" ELSE "link")
            /\ \A k \in GroupOf(t) :
                 IF k \in installed
                   THEN targets'[s][k] =
                          SkillTargetRecord(lcall'.target_path, lcall'.mode_used)
                   ELSE targets'[s][k] = targets[s][k]
            /\ Len(LOpsOf(lops', "sync_dir_for_tool_with_overwrite")) = 1]_vars

\* A sync to toolA that succeeded while toolB, of the same group, was the
\* only other member installed, and toolA's and toolB's rows agree.
C11_Witness ==
  /\ lcall.op = "sync_skill_to_tool"
  /\ lcall.res = "ok"
  /\ lcall.tool = "toolA"
  /\ {"toolA", "toolB"} \subseteq installed
  /\ targets[lcall.skill]["toolB"] =
       SkillTargetRecord(lcall.target_path, lcall.mode_used)
  /\ Len(LOpsOf(lops, "upsert_skill_target")) = 2

\* ----------------------------------------- claims on the sync commands
\* sync_skill_to_custom_target(s, id) returns in this step.
CustomSyncReturns(s, id) ==
  /\ lcall'.op = "sync_skill_to_custom_target"
  /\ lcall'.skill = s
  /\ lcall'.tool = id

\* The step is a sync of skill s to destination q without overwrite that
\* reaches the sync engine while something is at q.
SyncOntoExisting(s, q) ==
  /\ fs[q] # "none"
  /\ lops' # <<>>
  /\ \/ \E t \in KnownTools :
          /\ SyncReturns(s, t)
          /\ q = TargetPath(t, s)
          /\ sync_skill_to_tool(s, t, FALSE)
     \/ \E id \in CustomIds :
          /\ CustomSyncReturns(s, id)
          /\ q = <<CustomDir, s>>
          /\ sync_skill_to_custom_target(s, id, FALSE)

\* C12: sync_skill_to_tool and the local branch of
\* sync_skill_to_custom_target, called without overwrite onto a
\* destination that exists, fail with the message TARGET_EXISTS|<path> of
\* that destination, which format_anyhow_error hands to the caller as it
\* is, and no SyncTarget row (and nothing on disk) is changed.
C12_TargetExistsCarriesPath ==
  [][\A s \in SkillIds, q \in Paths :
       SyncOntoExisting(s, q)
         => /\ lcall'.res = "err"
            /\ lcall'.err = <<"TARGET_EXISTS|", PathStr(q)>>
            /\ targets' = targets
            /\ fs' = fs]_vars

\* A sync to the local custom target that was refused because the
\* destination of an earlier sync is there, whose row is still in place.
C12_Witness ==
  /\ lcall.op = "sync_skill_to_custom_target"
  /\ lcall.err = <<"TARGET_EXISTS|", PathStr(<<CustomDir, lcall.skill>>)>>
  /\ fs[<<CustomDir, lcall.skill>>] # "none"
  /\ targets[lcall.skill][CustomKey(lcall.tool)] # NoTarget

\* C13: sync_skill_to_tool for a known tool that its adapter reports as
\* not installed fails with TOOL_NOT_INSTALLED|<tool key>, and has written
\* neither the destination nor a SyncTarget row.
C13_NotInstalledIsRefused ==
  [][\A s \in SkillIds, t \in KnownTools :
       (SyncReturns(s, t) /\ t \notin installed
          /\ lcall'.err # format_anyhow_error(ProbeError))
         => /\ lcall'.res = "err"
            /\ lcall'.err = <<"TOOL_NOT_INSTALLED|", t>>
            /\ lops' = <<>>
            /\ fs' = fs
            /\ targets' = targets]_vars

\* A refused sync to toolA, not installed, while toolB of the same group
\* is installed and nothing is at the destination.
C13_Witness ==
  /\ lcall.op = "sync_skill_to_tool"
  /\ lcall.tool = "toolA"
  /\ lcall.err = <<"TOOL_NOT_INSTALLED|", "toolA">>
  /\ "toolA" \notin installed
  /\ "toolB" \in installed
  /\ fs[TargetPath("toolA", lcall.skill)] = "none"

\* The records of skill s whose path holds a symbolic link.
LinkedRecords(s) ==
  {k \in DestKeys : /\ targets[s][k] # NoTarget
                    /\ fs[targets[s][k].target_path] = "link"}

\* C14: delete_managed_skill removes the path of every SyncTarget of the
\* skill, then the central directory, and only then the rows: while it
\* runs no record of the skill holds a link whose central copy is gone,
\* the central directory goes only when every listed path has been dealt
\* with and no record's link is left, and the skill row goes only when the
\* central directory is gone.
C14_DeleteInOrder ==
  /\ [](del.pc # "idle" /\ del.skill \notin centralDir => LinkedRecords(del.skill) = {})
  /\ [][centralDir' # centralDir => del.todo = {} /\ LinkedRecords(del.skill) = {}]_vars
  /\ [][skillRows' # skillRows => del.skill \notin centralDir]_vars

\* A turn of the removal loop of delete_managed_skill keeps the loop going
\* whatever remove_path_any returned, and pushes the path exactly when it
\* failed; the loop is left only when every listed path has been attempted.
DeleteLoopGoesOn ==
  /\ (del.pc = "targets" /\ del'.pc = "targets" /\ del' # del)
       => \E target \in del.todo :
            /\ del'.todo = del.todo \ {target}
            /\ Len(lops') = 1
            /\ lops'[1].op = "remove_path_any"
            /\ lops'[1].path = target.target_path
            /\ del'.remove_failures =
                  IF lops'[1].res = "err"
                    THEN del.remove_failures
                           \o <<"\n- ", PathStr(target.target_path), ": ", "io error">>
                    ELSE del.remove_failures
  /\ (del.pc = "targets" /\ del'.pc # "targets") => del.todo = {}

\* delete_managed_skill returns in this step.
DeleteReturns == del.pc \in {"targets", "row"} /\ del'.pc = "idle"

\* The error that lists the paths of remove_failures has been returned, and
\* the central directory and the row of the skill are gone.
DeletedWithList ==
  /\ lcall'.res = "err"
  /\ lcall'.err = format_anyhow_error(RemoveFailuresError(del.remove_failures))
  /\ del.skill \notin centralDir'
  /\ del.skill \notin skillRows'

\* C36 as stated: a failed removal of a target path does not stop
\* delete_managed_skill; it attempts every remaining path, removes the
\* central directory, deletes the skill row and returns the error that
\* lists exactly the paths whose removal failed; it returns Ok only when
\* every removal succeeded.
C36_FailedRemovalDoesNotStopDelete ==
  [][/\ DeleteLoopGoesOn
     /\ DeleteReturns =>
          /\ lcall'.res = "ok" => del.remove_failures = <<>>
          /\ del.remove_failures # <<>> => DeletedWithList]_vars

\* C36, amended: the same, unless get_skill_by_id, remove_dir_all or
\* delete_skill fails after the loop: then that error is returned in place
\* of the list and the skill row is kept.
C36_FailedRemovalDoesNotStopLoop ==
  [][/\ DeleteLoopGoesOn
     /\ DeleteReturns =>
          /\ lcall'.res = "ok" => del.remove_failures = <<>>
          /\ del.remove_failures # <<>> =>
               \/ DeletedWithList
               \/ /\ lcall'.res = "err"
                  /\ lcall'.err \in {format_anyhow_error(StoreError),
                                     format_anyhow_error(<<<<"io error">>>>)}
                  /\ skillRows' = skillRows
                  /\ centralDir' = centralDir]_vars

\* The removal of a target path of skill 1 failed; the command has removed
\* the central directory and the row and returned the list with that path,
\* which is still in place.
C36_Witness ==
  /\ lcall.op = "delete_managed_skill"
  /\ lcall.skill = 1
  /\ lcall.res = "err"
  /\ \E q \in Paths :
       /\ lcall.err = format_anyhow_error(
                         RemoveFailuresError(<<"\n- ", PathStr(q), ": ", "io error">>))
       /\ fs[q] # "none"
  /\ 1 \notin centralDir
  /\ 1 \notin skillRows

\* Something is at path q, on the local filesystem or on the remote host.
PathInPlace(f, rem, q) == f[q] # "none" \/ rem.links[q] # 0

RemovalCommands ==
  {"unsync_skill_from_tool", "unsync_skill_from_custom_target",
   "delete_custom_target", "delete_managed_skill"}

\* C15: a SyncTarget record and the path it describes are deleted
\* together: when one of the four removing commands returns Ok, the step
\* that returns leaves no record whose path it removed, and deletes no
\* record whose (local or remote) path is still in place.
C15_RecordAndPathGoTogether ==
  [][lcall'.op \in RemovalCommands /\ lcall'.res = "ok" =>
       \A s \in SkillIds, k \in DestKeys :
         targets[s][k] # NoTarget =>
           LET q == targets[s][k].target_path
           IN /\ PathInPlace(fs, remote, q) /\ ~PathInPlace(fs', remote', q)
                   => targets'[s][k] = NoTarget
              /\ targets'[s][k] = NoTarget => ~PathInPlace(fs', remote', q)]_vars

\* --------------------------------------------- create_remote_symlink alone
\* What can be at the target before a call: nothing, a link to the staging
\* directory of some skill, or a real directory; the parent directory
\* exists when something is in it.
LinkTargets == {CustomDir} \X Names

LinkPriorStates ==
  {[EmptyRemote EXCEPT !.dirs = ds, !.links[p] = v] :
     ds \in {{}, {CustomDir}}, p \in LinkTargets, v \in {0, RealDir} \cup Names}

LinkInit ==
  /\ ops = <<>>
  /\ bSkills = <<>>
  /\ bToolKeys = <<>>
  /\ bPc = "off"
  /\ bI = 0
  /\ synced = <<>>
  /\ errors = <<>>
  /\ bResult = "none"
  /\ HostIdle
  /\ UploadIdle
  /\ LocalIdle
  /\ centralDir = Names
  /\ \E r \in LinkPriorStates :
       /\ (\E p \in LinkTargets : r.links[p] # 0) => CustomDir \in r.dirs
       /\ remote = r

\* One call create_remote_symlink(<staging of src>, <home>/<p[1]>/<p[2]>).
CreateRemoteSymlink(src, p, outcome) ==
  LET r == create_remote_symlink(remote, <<>>, src, p[1], p[2], outcome)
  IN /\ remote' = r.remote
     /\ ops' = r.ops
     /\ lcall' = Call("create_remote_symlink", src, "", IF r.ok THEN "ok" ELSE "err",
                      "", p, <<>>)
     /\ UNCHANGED <<centralDir, bSkills, bToolKeys, bPc, bI, synced, errors, bResult,
                    installed, targets, fs, lops, customVars, hostVars, uploadVars, moreVars>>

LinkNext ==
  \E src \in Names, p \in LinkTargets, outcome \in LinkOutcomes :
    CreateRemoteSymlink(src, p, outcome)

SpecLink == LinkInit /\ [][LinkNext]_vars

\* C16: create_remote_symlink is idempotent: two calls with the same
\* source and target, neither meeting an SSH failure, leave exactly one
\* link at the target, to the source, and the second returns no error and
\* changes nothing on the remote host.
C16_SymlinkIdempotent ==
  \A src \in Names, p \in LinkTargets :
    LET r1 == create_remote_symlink(remote, <<>>, src, p[1], p[2], "ok")
        r2 == create_remote_symlink(r1.remote, <<>>, src, p[1], p[2], "ok")
    IN /\ r2.ok
       /\ r2.remote = r1.remote
       /\ r2.remote.links[p] = src
       /\ {e \in r2.remote.inside : e[1] = p} = {}

\* C17: when create_remote_symlink(source, target) returns success, the
\* target itself is a symbolic link to the source, whatever was there
\* before, and the target's parent directory exists.
C17_TargetIsTheLink ==
  lcall.op = "create_remote_symlink" /\ lcall.res = "ok" =>
    /\ remote.links[lcall.target_path] = lcall.skill
    /\ lcall.target_path[1] \in remote.dirs

\* ------------------------------------------------------- the SFTP server
\* The status codes of SFTP: 0 is success, 2 SSH_FX_NO_SUCH_FILE,
\* 3 SSH_FX_PERMISSION_DENIED, 4 SSH_FX_FAILURE, 11
\* SSH_FX_FILE_ALREADY_EXISTS.
IsDir(t, p) == p = <<>> \/ (p \in DOMAIN t /\ t[p] = "dir")

\* The codes sftp.mkdir(path) can answer with: something is at the path
\* (4 or 11 by the server's protocol version, or 3), its parent is not a
\* directory (2), or the server creates it (0) or refuses (3, 4).
MkdirCodes(t, p) ==
  IF t[p] # "none" THEN {4, 11, 3}
  ELSE IF ~IsDir(t, Parent(p)) THEN {2}
  ELSE {0, 3, 4}

\* The tree after sftp.mkdir(path) answered with code.
MkdirTree(t, p, code) == IF code = 0 THEN [t EXCEPT ![p] = "dir"] ELSE t

\* sftp.stat(path).is_ok()
StatOk(t, p) == t[p] # "none"

\* ------------------------------------------------------------ sftp_mkdir_p
\* After the first sftp.mkdir: Ok, or an error with code 4 or 11, ends the
\* call with Ok; any other error goes on to sftp.stat.
AfterMkdir(code) == IF code \in {0, 4, 11} THEN "ok" ELSE "stat"

\* After sftp.stat: Ok ends the call with Ok; otherwise the parent is
\* made first, unless the path has none or its parent is "/", where the
\* call ends with Ok.
AfterStat(stat_ok, p) ==
  IF stat_ok THEN "ok"
  ELSE IF Len(p) <= 1 THEN "ok"
  ELSE "parent"

\* After the second sftp.mkdir: Ok ends the call with Ok, an error goes on
\* to the second sftp.stat.
AfterRetry(code) == IF code = 0 THEN "ok" ELSE "restat"

\* The second stat without its effect: the error of the retry is returned
\* whether or not the directory is there by now.
AfterRestatStrict(stat_ok) == "err"

\* After the second sftp.stat: Ok if the path is there, else the error.
AfterRestat(stat_ok) == IF stat_ok THEN "ok" ELSE "err"

Frame(p, pc) == [path |-> p, pc |-> pc]

\* The call in flight after its top frame decided `next` by way of `via`:
\* Ok returns to the frame below, which is at its retry; Err returns from
\* every frame (`?`).
Decide(m, next, via) ==
  LET n == Len(m.stack)
      top == m.stack[n]
  IN CASE next = "ok" ->
            IF n = 1 THEN [m EXCEPT !.res = "ok", !.stack = <<>>, !.via = via]
            ELSE [m EXCEPT !.stack = SubSeq(@, 1, n - 1)]
       [] next = "err" -> [m EXCEPT !.res = "err", !.stack = <<>>, !.via = via]
       [] next = "parent" ->
            [m EXCEPT !.stack = SubSeq(@, 1, n - 1)
                                  \o <<Frame(top.path, "retry"),
                                       Frame(Parent(top.path), "mkdir")>>]
       [] OTHER -> [m EXCEPT !.stack[n].pc = next]

\* The paths of one chain, the prior states of the remote tree along it,
\* and the state before a call sftp_mkdir_p(sftp, path).
MkdirPaths == {<<"h">>, RemoteBase, RemoteBase \o <<"a">>, RemoteBase \o <<"a", "a">>}

ChainTrees ==
  {[p \in RPaths |-> IF p \in MkdirPaths THEN c[p] ELSE "none"] :
     c \in [MkdirPaths -> {"none", "dir", "file"}]}

MkdirPriors == {t \in ChainTrees : WellFormed(t, <<>>)}

MkdirInit ==
  /\ ops = <<>>
  /\ remote = EmptyRemote
  /\ bSkills = <<>>
  /\ bToolKeys = <<>>
  /\ bPc = "off"
  /\ bI = 0
  /\ synced = <<>>
  /\ errors = <<>>
  /\ bResult = "none"
  /\ hosts = [h \in HostIds |-> NoHost]
  /\ procs = [p \in Procs |-> Idle]
  /\ LocalIdle
  /\ centralDir = Names
  /\ ltree = [r \in RelPaths |-> "none"]
  /\ sshCall = NoExec
  /\ sess = NoSession
  /\ MoreIdle
  /\ rtree \in MkdirPriors
  /\ \E p \in MkdirPaths :
       mkp = [res |-> "run", path |-> p, stack |-> <<Frame(p, "mkdir")>>, via |-> ""]

MkdirFrame ==
  UNCHANGED <<centralDir, batchVars, hostVars, localVars, customVars, ltree, sshCall, sess,
              moreVars>>

\* sftp.mkdir(path, 0o755), first attempt.
MkdirStep ==
  /\ mkp.res = "run"
  /\ LET top == mkp.stack[Len(mkp.stack)]
     IN /\ top.pc = "mkdir"
        /\ \E code \in MkdirCodes(rtree, top.path) :
             /\ rtree' = MkdirTree(rtree, top.path, code)
             /\ mkp' = Decide(mkp, AfterMkdir(code), "mkdir")
  /\ MkdirFrame

\* sftp.stat(path) after a first attempt that failed with another code.
StatStep ==
  /\ mkp.res = "run"
  /\ LET top == mkp.stack[Len(mkp.stack)]
     IN /\ top.pc = "stat"
        /\ mkp' = Decide(mkp, AfterStat(StatOk(rtree, top.path), top.path), "stat")
  /\ rtree' = rtree
  /\ MkdirFrame

\* sftp.mkdir(path, 0o755) again, after sftp_mkdir_p(parent) returned Ok.
RetryStep ==
  /\ mkp.res = "run"
  /\ LET top == mkp.stack[Len(mkp.stack)]
     IN /\ top.pc = "retry"
        /\ \E code \in MkdirCodes(rtree, top.path) :
             /\ rtree' = MkdirTree(rtree, top.path, code)
             /\ mkp' = Decide(mkp, AfterRetry(code), "retry")
  /\ MkdirFrame

\* sftp.stat(path) after the retry failed.
RestatStep ==
  /\ mkp.res = "run"
  /\ LET top == mkp.stack[Len(mkp.stack)]
     IN /\ top.pc = "restat"
        /\ mkp' = Decide(mkp, AfterRestat(StatOk(rtree, top.path)), "restat")
  /\ rtree' = rtree
  /\ MkdirFrame

\* Another client of the server (a second upload) creates a directory
\* while the call is in flight.
OtherCreator(p) ==
  /\ mkp.res = "run"
  /\ rtree[p] = "none"
  /\ IsDir(rtree, Parent(p))
  /\ rtree' = [rtree EXCEPT ![p] = "dir"]
  /\ mkp' = mkp
  /\ MkdirFrame

MkdirNext ==
  \/ MkdirStep
  \/ StatStep
  \/ RetryStep
  \/ RestatStep
  \/ \E p \in MkdirPaths : OtherCreator(p)

SpecMkdir == MkdirInit /\ [][MkdirNext]_vars

\* C18: sftp_mkdir_p on a directory that already exists, or that another
\* creator makes between the mkdir attempt and the check, returns success:
\* a call never returns its error with the directory in place.
C18_ExistingDirIsSuccess ==
  [][mkp.res = "run" /\ mkp'.res = "err" => rtree'[mkp.path] # "dir"]_vars

\* The directory was made by another creator between the retry and the
\* check of a call that then returned Ok.
C18_Witness ==
  /\ mkp.res = "ok"
  /\ mkp.via = "restat"
  /\ rtree[mkp.path] = "dir"

\* C34: when sftp_mkdir_p returns Ok for a path, a directory is at that
\* path as it returns, whatever code the mkdir answered with and whatever
\* the path; a call that leaves no directory at the path returns Err.
C34_SuccessMeansDirectory ==
  [][mkp.res = "run" /\ mkp'.res # "run"
       => /\ mkp'.res = "ok" => rtree'[mkp.path] = "dir"
          /\ rtree'[mkp.path] # "dir" => mkp'.res = "err"]_vars

\* ---------------------------------------------------- sftp_upload_dir
\* A server answers an existing path with exists_code and makes a new
\* directory or file (refuse = 0) or refuses with code refuse.
Servers == [exists_code : {4, 11, 3}, refuse : {0, 3, 4}]

MkdirCode(t, p, srv) ==
  IF t[p] # "none" THEN srv.exists_code
  ELSE IF ~IsDir(t, Parent(p)) THEN 2
  ELSE srv.refuse

\* sftp_mkdir_p(sftp, path) with no other client in between: [ok, tree].
RECURSIVE sftp_mkdir_p(_, _, _)
sftp_mkdir_p(t, p, srv) ==
  LET c1 == MkdirCode(t, p, srv)
      t1 == MkdirTree(t, p, c1)
  IN IF AfterMkdir(c1) = "ok" THEN [ok |-> TRUE, tree |-> t1]
     ELSE LET next == AfterStat(StatOk(t1, p), p)
          IN IF next = "ok" THEN [ok |-> TRUE, tree |-> t1]
             ELSE LET r == sftp_mkdir_p(t1, Parent(p), srv)
                      c2 == MkdirCode(r.tree, p, srv)
                      t2 == MkdirTree(r.tree, p, c2)
                  IN IF ~r.ok THEN r
                     ELSE IF AfterRetry(c2) = "ok" THEN [ok |-> TRUE, tree |-> t2]
                     ELSE [ok |-> AfterRestat(StatOk(t2, p)) = "ok", tree |-> t2]

\* sftp.create(path) and write_all: a new or truncated regular file,
\* unless a directory is there, the parent is not a directory or the
\* server refuses.
sftp_create(t, p, srv) ==
  IF t[p] = "dir" \/ ~IsDir(t, Parent(p)) \/ srv.refuse # 0
    THEN [ok |-> FALSE, tree |-> t]
    ELSE [ok |-> TRUE, tree |-> [t EXCEPT ![p] = "file"]]

\* The directory listing orders WalkDir can meet.
Orders == {<<"a", ".git">>, <<".git", "a">>}

\* WalkDir::new(local_path).follow_links(false) with
\* filter_entry(|e| e.file_name() != ".git"), below the root: the entries
\* in the order met, a directory before what it holds, nothing named
\* .git and nothing beneath it.
RECURSIVE WalkDir(_, _, _, _)
WalkDir(lt, prefix, order, i) ==
  IF i > Len(order) THEN <<>>
  ELSE LET q == prefix \o <<order[i]>>
           here == IF q \notin DOMAIN lt \/ lt[q] = "none" \/ order[i] = ".git"
                     THEN <<>>
                     ELSE <<q>> \o (IF lt[q] = "dir" THEN WalkDir(lt, q, order, 1)
                                    ELSE <<>>)
       IN here \o WalkDir(lt, prefix, order, i + 1)

\* The body of the loop for the entries from the k-th on; `fault` is the
\* entry whose walk or read fails (0: none).  [ok, tree].
RECURSIVE UploadEntries(_, _, _, _, _, _)
UploadEntries(t, lt, entries, k, srv, fault) ==
  IF k > Len(entries) THEN [ok |-> TRUE, tree |-> t]
  ELSE LET rel == entries[k]
           remote_target == RemoteBase \o rel
       IN IF fault = k THEN [ok |-> FALSE, tree |-> t]
          ELSE IF lt[rel] = "dir"
            THEN LET r == sftp_mkdir_p(t, remote_target, srv)
                 IN IF ~r.ok THEN r
                    ELSE UploadEntries(r.tree, lt, entries, k + 1, srv, fault)
          ELSE IF lt[rel] = "file"
            THEN LET r == IF Parent(rel) # <<>>
                            THEN sftp_mkdir_p(t, RemoteBase \o Parent(rel), srv)
                            ELSE [ok |-> TRUE, tree |-> t]
                     f == sftp_create(r.tree, remote_target, srv)
                 IN IF ~r.ok THEN r
                    ELSE IF ~f.ok THEN f
                    ELSE UploadEntries(f.tree, lt, entries, k + 1, srv, fault)
          ELSE UploadEntries(t, lt, entries, k + 1, srv, fault)

\* sftp_upload_dir(sess, local_path, remote_path) on the trees, for a
\* local_path that exists: sftp_mkdir_p(remote_path)?, then the loop.
sftp_upload_dir_tree(t, lt, srv, order, fault) ==
  LET base == sftp_mkdir_p(t, RemoteBase, srv)
  IN IF ~base.ok THEN base
     ELSE UploadEntries(base.tree, lt, WalkDir(lt, <<>>, order, 1), 1, srv, fault)

\* The local trees: below the root, no path longer than TreeDepth.
LocalTrees ==
  {lt \in [RelPaths -> {"none", "dir", "file", "link"}] : WellFormed(lt, <<>>)}

\* The remote tree before an upload: the home directory exists, and the
\* staging directory may hold what an earlier upload left at a and a/a.
UploadPriors ==
  {t \in MkdirPriors : t[<<"h">>] = "dir" /\ t[RemoteBase] # "file"}

MaxEntries == Cardinality(RelPaths)

UploadInit ==
  /\ ops = <<>>
  /\ remote = EmptyRemote
  /\ bSkills = <<>>
  /\ bToolKeys = <<>>
  /\ bPc = "off"
  /\ bI = 0
  /\ synced = <<>>
  /\ errors = <<>>
  /\ bResult = "none"
  /\ hosts = [h \in HostIds |-> NoHost]
  /\ procs = [p \in Procs |-> Idle]
  /\ LocalIdle
  /\ centralDir = Names
  /\ mkp = NoCallMkdir
  /\ sshCall = NoExec
  /\ sess = NoSession
  /\ MoreIdle
  /\ ltree \in LocalTrees
  /\ rtree \in UploadPriors

\* One call sftp_upload_dir(sess, local_path, remote_path).
UploadCall ==
  /\ \E srv \in Servers, order \in Orders, fault \in 0..MaxEntries :
       LET r == sftp_upload_dir_tree(rtree, ltree, srv, order, fault)
       IN /\ fault <= Len(WalkDir(ltree, <<>>, order, 1))
          /\ rtree' = r.tree
          /\ lcall' = Call("sftp_upload_dir", 0, "", IF r.ok THEN "ok" ELSE "err",
                           "", NoPath, <<>>)
  /\ UNCHANGED <<centralDir, batchVars, hostVars, installed, targets, fs, lops,
                 customVars, ltree, mkp, sshCall, sess, moreVars>>

UploadNext == UploadCall

SpecUpload == UploadInit /\ [][UploadNext]_vars

\* The path has a component named .git.
UnderGit(rel) == \E i \in 1..Len(rel) : rel[i] = ".git"

\* C19: sftp_upload_dir creates nothing on the remote host for an entry
\* named .git or for anything beneath one, and when it returns Ok every
\* other directory and regular file of the local tree is at the same
\* relative path under the remote staging path.
C19_GitExcludedRestUploaded ==
  [][lcall'.op = "sftp_upload_dir" =>
       /\ \A rel \in RelPaths :
            UnderGit(rel) => rtree'[RemoteBase \o rel] = rtree[RemoteBase \o rel]
       /\ lcall'.res = "ok" =>
            \A rel \in RelPaths :
              ~UnderGit(rel) /\ ltree[rel] \in {"dir", "file"} =>
                rtree'[RemoteBase \o rel] = ltree[rel]]_vars

\* -------------------------------------------------------------- ssh_exec
\* The commands, what they print, and what read_to_string leaves in
\* stderr_buf, as a sequence of characters.
Commands == {"echo $HOME", "ls -1"}

Stdouts == {"", "/home/u\n"}

StderrChars == {" ", "e"}

StderrBufs == UNION {[1..n -> StderrChars] : n \in 0..2}

\* channel.exit_status(): a code, or an error.
Unreadable == 1000

ExitStatuses == {0, 1, 255, Unreadable}

\* str::trim on the characters of stderr_buf.
RECURSIVE TrimStart(_)
TrimStart(b) == IF b # <<>> /\ Head(b) = " " THEN TrimStart(Tail(b)) ELSE b

RECURSIVE TrimEnd(_)
TrimEnd(b) ==
  IF b # <<>> /\ b[Len(b)] = " " THEN TrimEnd(SubSeq(b, 1, Len(b) - 1)) ELSE b

trim(b) == TrimEnd(TrimStart(b))

\* exit_status().unwrap_or(0): an unreadable status read as success.
ExitCodeOrZero(status) == IF status = Unreadable THEN 0 ELSE status

\* channel.exit_status().unwrap_or(-1)
ExitCode(status) == IF status = Unreadable THEN -1 ELSE status

\* ssh_exec(sess, command), where `fail` is the step of the channel that
\* fails ("none", "open", "exec", "read"): Ok(output) for exit code 0,
\* else the bail with the command, the code and the trimmed stderr.
ssh_exec(command, fail, stdout, stderr_buf, status) ==
  LET Err(e) == [ok |-> FALSE, output |-> "", err |-> e]
      exit == ExitCode(status)
  IN IF fail = "open" THEN Err(<<<<"open SSH channel">>, <<"channel error">>>>)
     ELSE IF fail = "exec" THEN Err(<<<<"exec: ", command>>, <<"channel error">>>>)
     ELSE IF fail = "read" THEN Err(<<<<"read SSH channel output">>, <<"io error">>>>)
     ELSE IF exit # 0
       THEN Err(<<<<"remote command '", command, "' exited with code ", ToString(exit),
                    ": ">> \o trim(stderr_buf)>>)
     ELSE [ok |-> TRUE, output |-> stdout, err |-> <<>>]

ExecInit ==
  /\ BatchIdle
  /\ hosts = [h \in HostIds |-> NoHost]
  /\ procs = [p \in Procs |-> Idle]
  /\ LocalIdle
  /\ centralDir = Names
  /\ ltree = [r \in RelPaths |-> "none"]
  /\ rtree = [p \in RPaths |-> "none"]
  /\ mkp = NoCallMkdir
  /\ sess = NoSession
  /\ MoreIdle
  /\ \E c \in Commands, f \in {"none", "open", "exec", "read"}, out \in Stdouts,
        b \in StderrBufs, st \in ExitStatuses :
       sshCall = [NoExec EXCEPT !.pc = "called", !.command = c, !.fail = f,
                             !.stdout = out, !.stderr_buf = b, !.status = st]

\* The call returns.
SshExec ==
  /\ sshCall.pc = "called"
  /\ sshCall' = [sshCall EXCEPT
                !.pc = "returned",
                !.result = ssh_exec(sshCall.command, sshCall.fail, sshCall.stdout,
                                    sshCall.stderr_buf, sshCall.status)]
  /\ UNCHANGED <<centralDir, batchVars, hostVars, localVars, customVars, ltree, rtree, mkp,
                 sess, moreVars>>

ExecNext == SshExec

SpecExec == ExecInit /\ [][ExecNext]_vars

\* C20: when the channel carried the command and its output, ssh_exec
\* returns the captured stdout if and only if the exit status is 0; any
\* other status, or one that cannot be read (taken as -1), gives an error
\* whose message has the command, the exit code and the captured stderr
\* (trimmed).
C20_ExitStatusDecides ==
  sshCall.pc = "returned" /\ sshCall.fail = "none" =>
    /\ sshCall.result.ok <=> sshCall.status = 0
    /\ sshCall.result.ok => sshCall.result.output = sshCall.stdout
    /\ ~sshCall.result.ok =>
         LET msg == sshCall.result.err[1]
             code == IF sshCall.status = Unreadable THEN "-1" ELSE ToString(sshCall.status)
         IN /\ Len(sshCall.result.err) = 1
            /\ \E i \in 1..Len(msg) : msg[i] = sshCall.command
            /\ \E i \in 1..Len(msg) : msg[i] = code
            /\ \E i \in 1..(Len(msg) + 1) :
                 SubSeq(msg, i, Len(msg)) = trim(sshCall.stderr_buf)

\* A call whose exit status could not be read returned the error with -1.
C20_Witness ==
  /\ sshCall.pc = "returned"
  /\ sshCall.fail = "none"
  /\ sshCall.status = Unreadable
  /\ ~sshCall.result.ok
  /\ sshCall.stderr_buf = <<" ", "e">>

\* ------------------------------------------------------ resolve_key_path
\* A path is a sequence of characters; the local home directory.
PathChars == {"~", "/", "k"}

MaxPathLen == 3

KeyPaths == UNION {[1..n -> PathChars] : n \in 0..MaxPathLen}

HomeDir == <<"/", "h">>

\* str::strip_prefix("~/") is Some
HasTildeSlash(kp) == Len(kp) >= 2 /\ kp[1] = "~" /\ kp[2] = "/"

\* PathBuf::join: an absolute argument replaces the base.
PathJoin(base, rel) ==
  IF rel # <<>> /\ rel[1] = "/" THEN rel ELSE base \o <<"/">> \o rel

\* The default keys tried rsa first.
CandidatesRsaFirst == <<"id_rsa", "id_ed25519", "id_ecdsa">>

\* let candidates = ["id_ed25519", "id_rsa", "id_ecdsa"]
Candidates == <<"id_ed25519", "id_rsa", "id_ecdsa">>

DefaultKey(c) == HomeDir \o <<"/", ".ssh", "/", c>>

\* resolve_key_path(key_path): [ok, key].  home_ok: dirs::home_dir() is
\* Some; existing: the default keys for which p.exists().
resolve_key_path(given, kp, home_ok, existing) ==
  LET Err == [ok |-> FALSE, key |-> <<>>]
      found == {i \in 1..Len(Candidates) : Candidates[i] \in existing}
      first == CHOOSE i \in found : \A j \in found : i <= j
  IN IF given /\ kp # <<>>
       THEN IF HasTildeSlash(kp)
              THEN IF home_ok
                     THEN [ok |-> TRUE, key |-> PathJoin(HomeDir, SubSeq(kp, 3, Len(kp)))]
                     ELSE Err
              ELSE [ok |-> TRUE, key |-> kp]
     ELSE IF ~home_ok THEN Err
     ELSE IF found = {} THEN Err
     ELSE [ok |-> TRUE, key |-> DefaultKey(Candidates[first])]

\* ---------------------------------------------------- create_ssh_session
AuthMethods == {"agent", "key", "password"}

SessionInit ==
  /\ BatchIdle
  /\ hosts = [h \in HostIds |-> NoHost]
  /\ procs = [p \in Procs |-> Idle]
  /\ LocalIdle
  /\ centralDir = Names
  /\ ltree = [r \in RelPaths |-> "none"]
  /\ rtree = [p \in RPaths |-> "none"]
  /\ mkp = NoCallMkdir
  /\ sshCall = NoExec
  /\ MoreIdle
  /\ \E am \in AuthMethods, given \in BOOLEAN, kp \in KeyPaths, home_ok \in BOOLEAN,
        ex \in SUBSET Range(Candidates) :
       /\ ~given => kp = <<>>
       /\ sess = [NoSession EXCEPT !.pc = "resolve", !.auth_method = am,
                                   !.key_given = given, !.key_path = kp,
                                   !.home_ok = home_ok, !.existing = ex]

SessionFrame ==
  UNCHANGED <<centralDir, batchVars, hostVars, localVars, customVars, ltree, rtree, mkp,
              sshCall, moreVars>>

\* A step of create_ssh_session that succeeds goes on to `next`; one that
\* fails returns its error (`?`).
SessionStep(here, next, ok) ==
  IF ok THEN [sess EXCEPT !.pc = next, !.log = Append(@, here)]
  ELSE [sess EXCEPT !.pc = "returned", !.res = "err", !.log = Append(@, here \o " failed")]

\* addr.to_socket_addrs()?.next().ok_or_else(..)?
SessResolve ==
  /\ sess.pc = "resolve"
  /\ \E ok \in BOOLEAN : sess' = SessionStep("resolve", "connect", ok)
  /\ SessionFrame

\* TcpStream::connect_timeout(..)?
SessConnect ==
  /\ sess.pc = "connect"
  /\ \E ok \in BOOLEAN : sess' = SessionStep("connect", "handshake", ok)
  /\ SessionFrame

\* Session::new()?, set_timeout, set_tcp_stream, sess.handshake()?
SessHandshake ==
  /\ sess.pc = "handshake"
  /\ \E ok \in BOOLEAN : sess' = SessionStep("handshake", "auth", ok)
  /\ SessionFrame

\* Key-file authentication whatever the method.
AuthKindKeyOnly(auth_method) == "key"

\* match auth_method { "agent" => userauth_agent, _ => userauth_pubkey_file }
AuthKind(auth_method) == IF auth_method = "agent" THEN "agent" ELSE "key"

\* The authentication step: for a key, resolve_key_path(key_path)? first.
\* The call of userauth_* succeeds or fails, and a success leaves the
\* session authenticated or (partial authentication) not.
SessAuth ==
  /\ sess.pc = "auth"
  /\ \E ok \in BOOLEAN, authed \in BOOLEAN :
       LET kind == AuthKind(sess.auth_method)
           r == resolve_key_path(sess.key_given, sess.key_path, sess.home_ok,
                                 sess.existing)
       IN /\ ~ok => ~authed
          /\ IF kind = "key" /\ ~r.ok
               THEN /\ ok /\ ~authed
                    /\ sess' = SessionStep("resolve_key_path", "check", FALSE)
               ELSE sess' = [SessionStep("userauth_" \o kind, "check", ok) EXCEPT
                               !.key = IF kind = "key" THEN r.key ELSE <<>>,
                               !.authenticated = authed]
  /\ SessionFrame

\* The session is returned without looking at sess.authenticated().
SessionVerdictUnchecked(authenticated) == "ok"

\* if !sess.authenticated() { bail!(..) }  Ok(sess)
SessionVerdict(authenticated) == IF authenticated THEN "ok" ELSE "err"

SessCheck ==
  /\ sess.pc = "check"
  /\ sess' = [sess EXCEPT !.pc = "returned", !.res = SessionVerdict(sess.authenticated),
                          !.log = Append(@, "authenticated?")]
  /\ SessionFrame

\* test_connection: ssh_exec(&sess, "echo ok") on the session returned.
SessExec ==
  /\ sess.pc = "returned"
  /\ sess.res = "ok"
  /\ sess.commands = 0
  /\ sess' = [sess EXCEPT !.commands = 1]
  /\ SessionFrame

SessionNext ==
  \/ SessResolve
  \/ SessConnect
  \/ SessHandshake
  \/ SessAuth
  \/ SessCheck
  \/ SessExec

SpecSession == SessionInit /\ [][SessionNext]_vars

\* C21: create_ssh_session returns a session only after connect,
\* handshake and authentication succeeded in that order and the session
\* reports authenticated; otherwise it returns an error; no command runs
\* on an unauthenticated session; `agent` authenticates by agent and every
\* other method by key file.
C21_SessionOnlyWhenAuthenticated ==
  /\ sess.res = "ok" =>
       /\ sess.authenticated
       /\ sess.log = <<"resolve", "connect", "handshake",
                       IF sess.auth_method = "agent" THEN "userauth_agent"
                       ELSE "userauth_key",
                       "authenticated?">>
  /\ sess.pc = "returned" /\ sess.res = "err" => sess.commands = 0
  /\ sess.pc = "returned" /\ ~sess.authenticated => sess.res = "err"
  /\ sess.commands > 0 => sess.authenticated /\ sess.res = "ok"

\* A session that reported unauthenticated after a successful call of
\* userauth_pubkey_file was refused.
C21_Witness ==
  /\ sess.pc = "returned"
  /\ sess.res = "err"
  /\ sess.auth_method = "password"
  /\ sess.log = <<"resolve", "connect", "handshake", "userauth_key", "authenticated?">>

\* resolve_key_path has been called, and what it returned.
KeyResolved ==
  /\ Len(sess.log) >= 4
  /\ sess.log[4] \in {"userauth_key", "userauth_key failed", "resolve_key_path failed"}

KeyOk == sess.log[4] # "resolve_key_path failed"

\* The default key the priority order ed25519, rsa, ecdsa gives.
FirstDefault(ex) ==
  IF "id_ed25519" \in ex THEN DefaultKey("id_ed25519")
  ELSE IF "id_rsa" \in ex THEN DefaultKey("id_rsa")
  ELSE DefaultKey("id_ecdsa")

RestIdle ==
  /\ BatchIdle
  /\ HostIdle
  /\ LocalIdle
  /\ SftpIdle
  /\ centralDir = Names

\* ------------------------------------------------ the central repository
\* The skills of the store and the directory name of each.
RepoSkillIds == {"s1", "s2"}

DirName(s) == IF s = "s1" THEN "a" ELSE "b"

\* The `path` arguments tried: empty, blank, relative, ~, ~/k, and /k with
\* blanks around it.  Paths are drawn without trailing or repeated
\* separators.
RepoPathInputs ==
  {<<>>, <<" ">>, <<"k">>, <<"~">>, <<"~", "/", "k">>, <<" ", "/", "k", " ">>}

\* expand_home_path: the path, or the error.
expand_home_path(input, home_ok) ==
  LET trimmed == trim(input) IN
  IF trimmed = <<>> THEN [ok |-> FALSE, path |-> <<>>, err |-> "storage path is empty"]
  ELSE IF trimmed = <<"~">>
    THEN IF home_ok THEN [ok |-> TRUE, path |-> HomeDir, err |-> ""]
         ELSE [ok |-> FALSE, path |-> <<>>, err |-> "failed to resolve home directory"]
  ELSE IF HasTildeSlash(trimmed)
    THEN IF home_ok
           THEN [ok |-> TRUE, path |-> PathJoin(HomeDir, SubSeq(trimmed, 3, Len(trimmed))),
                 err |-> ""]
           ELSE [ok |-> FALSE, path |-> <<>>, err |-> "failed to resolve home directory"]
  ELSE [ok |-> TRUE, path |-> trimmed, err |-> ""]

\* Path::is_absolute on a Unix path.
is_absolute(p) == p # <<>> /\ Head(p) = "/"

\* The roots the arguments above can name.
Roots ==
  {e.path : e \in {x \in {expand_home_path(i, TRUE) : i \in RepoPathInputs} :
                     x.ok /\ is_absolute(x.path)}}

\* A directory of a root, and the rows of the store's skills table.
NoCentralPath == [root |-> <<>>, name |-> ""]

NoRow == [present |-> FALSE, central_path |-> NoCentralPath]

RepoPaths == [root : Roots, name : {DirName(s) : s \in RepoSkillIds}]

\* store.list_skills: the skills that have a row, in the order the store
\* gives them.
SkillsListed(rows) ==
  LET present == {s \in RepoSkillIds : rows[s].present} IN
  {o \in [1..Cardinality(present) -> present] :
     \A i, j \in DOMAIN o : i # j => o[i] # o[j]}

\* new_base.join(file_name) for the file name of old_path.
NewPath(new_base, old_path) == [root |-> new_base, name |-> old_path.name]

\* The row written back without its new path.
UpdatedRowStale(row, new_path) == row

\* The row written back after the move (its updated_at is not kept here).
UpdatedRow(row, new_path) == [row EXCEPT !.central_path = new_path]

\* What can fail: a step outside the loop, or a step of the loop at a skill.
RepoFailures ==
  {[step |-> x, at |-> "s1"] : x \in {"none", "ensure", "resolve", "list", "setting"}}
    \cup [step : {"copy", "cleanup", "upsert"}, at : RepoSkillIds]

\* One round of the loop over the skills: st is [rows, dirs, err].
MoveOne(st, s, new_base, rename_ok, fail) ==
  LET old_path == st.rows[s].central_path
      new_path == NewPath(new_base, old_path)
      here(x) == fail.step = x /\ fail.at = s
      moved == (st.dirs \ {old_path}) \cup {new_path}
  IN
  IF old_path \notin st.dirs THEN [st EXCEPT !.err = "central path not found"]
  ELSE IF new_path \in st.dirs THEN [st EXCEPT !.err = "target path already exists"]
  ELSE IF ~rename_ok /\ here("copy")
    THEN [st EXCEPT !.err = "copy", !.dirs = @ \cup {new_path}]
  ELSE IF ~rename_ok /\ here("cleanup")
    THEN [st EXCEPT !.err = "cleanup", !.dirs = @ \cup {new_path}]
  ELSE IF here("upsert") THEN [st EXCEPT !.err = "upsert_skill", !.dirs = moved]
  ELSE [st EXCEPT !.dirs = moved, !.rows[s] = UpdatedRow(@, new_path)]

RECURSIVE MoveSkills(_, _, _, _, _)
MoveSkills(st, skills, new_base, rename_ok, fail) ==
  IF skills = <<>> \/ st.err # "" THEN st
  ELSE MoveSkills(MoveOne(st, Head(skills), new_base, rename_ok, fail), Tail(skills),
                  new_base, rename_ok, fail)

\* set_central_repo_path on the repository r: the repository afterwards and
\* the result (Ok or Err; the message of an error is not kept).
set_central_repo_path(r, path, home_ok, rename_ok, skills, fail) ==
  LET e == expand_home_path(path, home_ok)
      new_base == e.path
      Failed(x, msg) == [x EXCEPT !.res = "err"]
      ensured == [r EXCEPT !.roots = @ \cup {new_base}]
      st == MoveSkills([rows |-> r.rows, dirs |-> r.dirs, err |-> ""], skills, new_base,
                       rename_ok, fail)
      after == [ensured EXCEPT !.rows = st.rows, !.dirs = st.dirs]
  IN
  IF ~e.ok THEN Failed(r, e.err)
  ELSE IF ~is_absolute(new_base) THEN Failed(r, "storage path must be absolute")
  ELSE IF fail.step = "ensure" THEN Failed(r, "ensure_central_repo")
  ELSE IF fail.step = "resolve" THEN Failed(ensured, "resolve_central_repo_path")
  ELSE IF fail.step = "list" THEN Failed(ensured, "list_skills")
  ELSE IF r.setting = new_base
    THEN IF fail.step = "setting" THEN Failed(ensured, "set_setting")
         ELSE [ensured EXCEPT !.res = "ok"]
  ELSE IF st.err # "" THEN Failed(after, st.err)
  ELSE IF fail.step = "setting" THEN Failed(after, "set_setting")
  ELSE [after EXCEPT !.setting = new_base, !.res = "ok"]

\* delete_managed_skill on the repository r, for a skill without synced
\* targets.
DeleteFailures == {"none", "list_skill_targets", "get_skill_by_id", "remove_dir_all", "delete_skill"}

delete_managed_skill(r, s, fail) ==
  LET Failed(x, msg) == [x EXCEPT !.res = "err"]
      path == r.rows[s].central_path
      removed == IF path \in r.dirs THEN [r EXCEPT !.dirs = @ \ {path}] ELSE r
  IN
  IF fail = "list_skill_targets" THEN Failed(r, fail)
  ELSE IF fail = "get_skill_by_id" THEN Failed(r, fail)
  ELSE IF ~r.rows[s].present THEN [r EXCEPT !.res = "ok"]
  ELSE IF path \in r.dirs /\ fail = "remove_dir_all" THEN Failed(r, fail)
  ELSE IF fail = "delete_skill" THEN Failed(removed, fail)
  ELSE [removed EXCEPT !.rows[s] = NoRow, !.res = "ok"]

\* How many directories there are under the other roots at the start.
MaxOthers == 1

\* The repository at the start: every skill in its directory under the
\* current root, and whatever else is under the other roots.
RepoInit ==
  /\ RestIdle
  /\ fmt = NoFormat
  /\ arch = NoArchive
  /\ srch = NoSearch
  /\ conns = NoConns
  /\ trows = NoRows
  /\ rsync = NoRemoteSync
  /\ QueryIdle
  /\ \E r0 \in Roots : \E others \in SUBSET {q \in RepoPaths : q.root # r0} :
       /\ Cardinality(others) <= MaxOthers
       /\ repo = [pc |-> "ready", setting |-> r0,
               rows |-> [s \in RepoSkillIds |->
                           [present |-> TRUE,
                            central_path |-> [root |-> r0, name |-> DirName(s)]]],
               dirs |-> {[root |-> r0, name |-> DirName(s)] : s \in RepoSkillIds}
                          \cup others,
               roots |-> {r0} \cup {q.root : q \in others},
               res |-> "none", cmd |-> "", path |-> <<>>]

\* The command set_central_repo_path.
SetCentralRepoPath ==
  \E path \in RepoPathInputs, home_ok \in BOOLEAN, rename_ok \in BOOLEAN,
     fail \in RepoFailures :
    \E skills \in SkillsListed(repo.rows) :
      /\ home_ok \/ Head(path \o <<" ">>) = "~"
      /\ IF rename_ok THEN fail.step \notin {"copy", "cleanup"}
         ELSE fail.step \in {"none", "copy", "cleanup"}
      /\ LET e == expand_home_path(path, home_ok) IN
         ~e.ok \/ ~is_absolute(e.path) \/ e.path = repo.setting
           => /\ rename_ok
              /\ fail.step \in {"none", "ensure", "resolve", "list", "setting"}
              /\ skills = CHOOSE o \in SkillsListed(repo.rows) : TRUE
      /\ repo' = [set_central_repo_path(repo, path, home_ok, rename_ok, skills, fail)
                    EXCEPT !.cmd = "set_central_repo_path", !.path = path]
      /\ UNCHANGED <<centralDir, batchVars, hostVars, localVars, customVars, uploadVars,
                     fmt, arch, srch, conns, trows, rsync, queryVars>>

\* The command delete_managed_skill.
DeleteManagedSkill ==
  \E s \in RepoSkillIds, fail \in DeleteFailures :
    /\ repo' = [delete_managed_skill(repo, s, fail)
                  EXCEPT !.cmd = "delete_managed_skill", !.path = <<>>]
    /\ UNCHANGED <<centralDir, batchVars, hostVars, localVars, customVars, uploadVars,
                   fmt, arch, srch, conns, trows, rsync, queryVars>>

RepoNext == SetCentralRepoPath \/ DeleteManagedSkill

SpecRepo == RepoInit /\ [][RepoNext]_vars

\* C22: set_central_repo_path to an absolute root other than the current
\* one, when it succeeds, has moved every skill's directory to
\* <new root>/<same name>, has set every row's central_path to it and has
\* set the setting to the new root; to the current root it moves no
\* directory and changes no row; an empty path, or one that is not absolute
\* after the home directory is expanded, is rejected with nothing changed.
C22_MigrationMovesEverySkill ==
  [][repo'.cmd = "set_central_repo_path" =>
       LET e == expand_home_path(repo'.path, TRUE)
           new_base == e.path
           ok == repo'.res = "ok"
       IN
       /\ ok /\ new_base # repo.setting =>
            /\ \A s \in RepoSkillIds :
                 repo.rows[s].present =>
                   LET old_path == repo.rows[s].central_path
                       new_path == [root |-> new_base, name |-> old_path.name]
                   IN /\ old_path \in repo.dirs
                      /\ old_path \notin repo'.dirs
                      /\ new_path \in repo'.dirs
                      /\ repo'.rows[s] = [present |-> TRUE, central_path |-> new_path]
            /\ \A s \in RepoSkillIds : ~repo.rows[s].present => ~repo'.rows[s].present
            /\ repo'.setting = new_base
       /\ ok /\ new_base = repo.setting =>
            /\ repo'.dirs = repo.dirs
            /\ repo'.rows = repo.rows
            /\ repo'.setting = repo.setting
       /\ trim(repo'.path) = <<>> \/ ~is_absolute(new_base) =>
            /\ ~ok
            /\ repo'.dirs = repo.dirs
            /\ repo'.roots = repo.roots
            /\ repo'.rows = repo.rows
            /\ repo'.setting = repo.setting]_vars

\* Both skills have been moved to /k, the last root asked for, after the
\* repository has been under the two other roots.
C22_Witness ==
  /\ repo.cmd = "set_central_repo_path"
  /\ repo.res = "ok"
  /\ repo.path = <<" ", "/", "k", " ">>
  /\ repo.setting = <<"/", "k">>
  /\ repo.roots = Roots
  /\ repo.dirs = {[root |-> <<"/", "k">>, name |-> DirName(s)] : s \in RepoSkillIds}
  /\ \A s \in RepoSkillIds :
       repo.rows[s] = [present |-> TRUE,
                       central_path |-> [root |-> <<"/", "k">>, name |-> DirName(s)]]

\* C23: after any sequence of set_central_repo_path and delete_managed_skill
\* calls, failed ones included, every skill row's central_path is an
\* existing directory and no two rows have the same central_path.
C23_CentralPathsExistAndDistinct ==
  /\ \A s \in RepoSkillIds : repo.rows[s].present => repo.rows[s].central_path \in repo.dirs
  /\ \A s, t \in RepoSkillIds :
       repo.rows[s].present /\ repo.rows[t].present /\ s # t
         => repo.rows[s].central_path # repo.rows[t].central_path

\* --------------------------------------------------- format_anyhow_error
\* The messages an error chain is made of here: the context of a clone from
\* some host and from GitHub, a message with a special prefix, a plain
\* context, and causes of one and of two lines.
TempDir == "/tmp/skills-hub-git-1"

ChainMessages ==
  {<<"clone ", "https://", "example.com", "/r", " into ", TempDir>>,
   <<"clone ", "https://", "GitHub.com", "/r", " into ", TempDir>>,
   <<"TARGET_EXISTS|", "dAB/1">>,
   <<"failed to install">>,
   <<"connection refused">>,
   <<"io error", "\n", "os error 2">>}

\* The longest chain.
MaxChain == 3

Chains == UNION {[1..n -> ChainMessages] : n \in 1..MaxChain}

FormatInit ==
  /\ RestIdle
  /\ repo = NoRepo
  /\ arch = NoArchive
  /\ srch = NoSearch
  /\ conns = NoConns
  /\ trows = NoRows
  /\ rsync = NoRemoteSync
  /\ QueryIdle
  /\ \E err \in Chains : fmt = [pc |-> "called", err |-> err, out |-> <<>>]

\* A command returns its error through .map_err(format_anyhow_error).
FormatAnyhowError ==
  /\ fmt.pc = "called"
  /\ fmt' = [fmt EXCEPT !.pc = "done", !.out = format_anyhow_error(fmt.err)]
  /\ UNCHANGED <<centralDir, batchVars, hostVars, localVars, customVars, uploadVars,
                 repo, arch, srch, conns, trows, rsync, queryVars>>

FormatNext == FormatAnyhowError

SpecFormat == FormatInit /\ [][FormatNext]_vars

\* The text m is part of the text out.
Includes(out, m) ==
  \E i \in 1..(Len(out) - Len(m) + 1) : SubSeq(out, i, i + Len(m) - 1) = m

\* A message without the destination directory of a clone context.
WithoutTempDir(m) ==
  IF Len(m) > 2 /\ m[1] = "clone " /\ m[Len(m) - 1] = " into " /\ m[Len(m)] = TempDir
    THEN SubSeq(m, 1, Len(m) - 2)
    ELSE m

\* The error was not one of the special ones.
Formatted ==
  /\ fmt.pc = "done"
  /\ ~\E p \in SpecialPrefixes : starts_with(fmt.err[1], p)

\* C24: the message made from an error without a special prefix includes the
\* root cause of the chain, and, when it is not replaced by a GitHub hint,
\* every message of the chain but for the destination directory of a clone
\* context.
C24_RootCauseIncluded ==
  Formatted =>
    /\ Includes(fmt.out, WithoutTempDir(root_cause(fmt.err)))
    /\ ~(\E i \in 1..Len(fmt.out) : fmt.out[i] = "\n\ndetail: ") =>
         \A i \in 1..Len(fmt.err) : Includes(fmt.out, WithoutTempDir(fmt.err[i]))

\* ------------------------------------------------- download_and_extract
\* The components an entry name is made of, and which of them begin with
\* "." and with "__MACOSX".
NameParts == {"a", ".h", "__MACOSX", "__MACOSXfoo"}

BeginsWithDot(c) == c \in {".h", ".."}

BeginsWithMacosx(c) == c \in {"__MACOSX", "__MACOSXfoo"}

\* The most components of an entry name, and the most entries of an archive.
MaxNameLen == 2

MaxArchive == 2

\* A zip entry: its name, as the components between "/", and whether it is a
\* directory entry.
ZipEntries == [name : UNION {[1..n -> NameParts] : n \in 1..MaxNameLen}, is_dir : BOOLEAN]

Archives == UNION {[1..n -> ZipEntries] : n \in 0..MaxArchive}

\* The most components of an entry name that climbs with "..".
MaxDepth == 4

\* Entry names that climb: the file a below components a and "..", relative
\* or absolute; an absolute name has "/" as its first component.
ClimbingNames ==
  LET rel == {n \in UNION {[1..k -> {"a", ".."}] : k \in 1..MaxDepth} : n[Len(n)] = "a"}
  IN rel \cup {<<"/">> \o n : n \in rel}

\* The archives with one such entry.
ClimbingArchives == {<<[name |-> n, is_dir |-> dr]>> : n \in ClimbingNames, dr \in BOOLEAN}

\* extract_dir = target_dir.join(slug), with target_dir the directory /t and
\* the slug s.
ExtractDir == <<"t", "s">>

\* extract_dir.join(&name): an absolute name replaces the base.
out_path(name) == IF name[1] = "/" THEN Tail(name) ELSE ExtractDir \o name

\* The place the file system finds a path at: ".." leaves the directory
\* reached so far, and stays at the root.
RECURSIVE Resolve(_, _)
Resolve(path, at) ==
  IF path = <<>> THEN at
  ELSE Resolve(Tail(path),
               IF Head(path) = ".."
                 THEN (IF at = <<>> THEN <<>> ELSE Parent(at))
                 ELSE Append(at, Head(path)))

\* std::fs::create_dir_all(out_path.parent()): every directory on the way
\* to the parent that is not there is made; / and /t are there before.
create_dir_all(path) ==
  {Resolve(SubSeq(path, 1, k), <<>>) : k \in 0..Len(path)} \ {<<>>, <<"t">>}

\* What the entry `name` leaves on disk when it is written: the directories
\* of create_dir_all and the file of File::create.
OnDisk(name) ==
  create_dir_all(Parent(out_path(name))) \cup {Resolve(out_path(name), <<>>)}

\* The steps that can fail, before the loop and in it.
ExtractFailures == {"none", "request", "body", "zip", "create_dir_all", "entry"}

\* The entry is skipped: a directory, or a name that starts with "__MACOSX"
\* or with ".".
Skipped(e) ==
  e.is_dir \/ BeginsWithMacosx(e.name[1]) \/ BeginsWithDot(e.name[1])

\* The loop over the entries up to entry n: the names written under
\* extract_dir.
Extracted(archive, n) ==
  {archive[i].name : i \in {j \in 1..n : ~Skipped(archive[j])}}

\* download_and_extract_inner: what is under <target_dir>/<slug> afterwards
\* and the result; `at` is the entry at which the loop fails.
download_and_extract_inner(archive, fail, at) ==
  IF fail \in {"request", "body", "zip"} THEN [made |-> FALSE, written |-> {}, res |-> "err"]
  ELSE IF fail = "create_dir_all" THEN [made |-> FALSE, written |-> {}, res |-> "err"]
  ELSE IF fail = "entry"
    THEN [made |-> TRUE, written |-> Extracted(archive, at - 1), res |-> "err"]
  ELSE [made |-> TRUE, written |-> Extracted(archive, Len(archive)), res |-> "ok"]

ArchiveInit ==
  /\ RestIdle
  /\ repo = NoRepo
  /\ fmt = NoFormat
  /\ srch = NoSearch
  /\ conns = NoConns
  /\ trows = NoRows
  /\ rsync = NoRemoteSync
  /\ QueryIdle
  /\ \E a \in Archives \cup ClimbingArchives :
          arch = [pc |-> "called", archive |-> a, made |-> FALSE,
                                 written |-> {}, res |-> "none"]

DownloadAndExtract ==
  /\ arch.pc = "called"
  /\ \E fail \in ExtractFailures, at \in 1..MaxArchive :
       /\ IF fail = "entry" THEN at <= Len(arch.archive) ELSE at = 1
       /\ LET r == download_and_extract_inner(arch.archive, fail, at) IN
          arch' = [arch EXCEPT !.pc = "done", !.made = r.made, !.written = r.written,
                               !.res = r.res]
  /\ UNCHANGED <<centralDir, batchVars, hostVars, localVars, customVars, uploadVars,
                 repo, fmt, srch, conns, trows, rsync, queryVars>>

ArchiveNext == DownloadAndExtract

SpecArchive == ArchiveInit /\ [][ArchiveNext]_vars

\* An entry that is to be left out: a directory entry, an entry under
\* __MACOSX, or one with a component that begins with ".".
LeftOut(e) ==
  \/ e.is_dir
  \/ e.name[1] = "__MACOSX"
  \/ \E i \in 1..Len(e.name) : BeginsWithDot(e.name[i])

\* C25: download_and_extract writes no directory entry, no entry under
\* __MACOSX and no entry with a component that begins with "."; on success
\* every other file entry is written at its relative path under the
\* directory returned.
C25_HiddenAndMetadataSkipped ==
  arch.pc = "done" =>
    LET entries == Range(arch.archive) IN
    /\ \A e \in entries :
         LeftOut(e) /\ (\A o \in entries : o.name = e.name => LeftOut(o))
           => e.name \notin arch.written
    /\ arch.res = "ok" =>
         /\ arch.made
         /\ \A e \in entries : ~LeftOut(e) => e.name \in arch.written

\* The path is <target_dir>/<slug> or lies below it.
Inside(path) == Len(path) >= 2 /\ SubSeq(path, 1, 2) = ExtractDir

\* C33: whatever the names of the entries of the archive, with ".."
\* components or absolute, every file and every directory that
\* download_and_extract creates lies inside <target_dir>/<slug>.
C33_ExtractionContained ==
  arch.pc = "done" =>
    \A n \in arch.written : \A path \in OnDisk(n) : Inside(path)

\* --------------------------------------------------------- search_clawhub
\* Option<T>: <<>> is None and <<v>> is Some(v).
None == <<>>

Some(v) == <<v>>

\* The entries a response is made of, and the most entries of a response.
SearchResultItems ==
  {[score |-> sc, slug |-> sl, display_name |-> dn, summary |-> rest[1],
    version |-> rest[2], updated_at |-> rest[3]] :
     sc \in {1, 3}, sl \in {None, Some("x"), Some("y")}, dn \in {None, Some("X")},
     rest \in {<<None, None, None>>, <<Some("sum"), Some("1.0"), Some(5)>>}}

MaxResults == 2

Responses == UNION {[1..n -> SearchResultItems] : n \in 0..MaxResults}

\* The `limit` arguments tried.
Limits == {0, 1, 7, 50, 51, 1000}

\* A clamp without its upper end.
clampFromBelow(x, lo, hi) == IF x < lo THEN lo ELSE x

\* usize::clamp
clamp(x, lo, hi) == IF x < lo THEN lo ELSE IF x > hi THEN hi ELSE x

\* Option::unwrap_or_default, for a string.
unwrap_or_default(o) == IF o = None THEN "" ELSE o[1]

\* The skill made of an entry that has a slug.
ClawHubSkill(item) ==
  [slug |-> item.slug[1], display_name |-> unwrap_or_default(item.display_name),
   summary |-> item.summary, version |-> item.version, score |-> item.score,
   updated_at |-> item.updated_at]

\* .into_iter().filter_map(..).collect(): `item.slug?` drops the entry
\* without a slug.
RECURSIVE filter_map(_)
filter_map(items) ==
  IF items = <<>> THEN <<>>
  ELSE IF Head(items).slug = None THEN filter_map(Tail(items))
  ELSE <<ClawHubSkill(Head(items))>> \o filter_map(Tail(items))

\* search_clawhub_inner: the limit in the URL, the result and the skills.
search_clawhub_inner(limit, response, fail) ==
  [sent_limit |-> clamp(limit, 1, 50),
   res |-> IF fail = "none" THEN "ok" ELSE "err",
   skills |-> IF fail = "none" THEN filter_map(response) ELSE <<>>]

SearchInit ==
  /\ RestIdle
  /\ repo = NoRepo
  /\ fmt = NoFormat
  /\ arch = NoArchive
  /\ conns = NoConns
  /\ trows = NoRows
  /\ rsync = NoRemoteSync
  /\ QueryIdle
  /\ \E limit \in Limits, response \in Responses :
       srch = [pc |-> "called", limit |-> limit, response |-> response, sent_limit |-> 0,
               res |-> "none", skills |-> <<>>]

SearchClawhub ==
  /\ srch.pc = "called"
  /\ \E fail \in {"none", "send", "error_for_status", "json"} :
       LET r == search_clawhub_inner(srch.limit, srch.response, fail) IN
       srch' = [srch EXCEPT !.pc = "done", !.sent_limit = r.sent_limit, !.res = r.res,
                            !.skills = r.skills]
  /\ UNCHANGED <<centralDir, batchVars, hostVars, localVars, customVars, uploadVars,
                 repo, fmt, arch, conns, trows, rsync, queryVars>>

SearchNext == SearchClawhub

SpecSearch == SearchInit /\ [][SearchNext]_vars

\* The positions of the response that have a slug.
WithSlug == {i \in 1..Len(srch.response) : srch.response[i].slug # None}

\* C28: a successful search returns exactly the entries of the response that
\* have a slug, in the order of the response, with slug, score, summary,
\* version and updated_at copied and a missing display name made "";
\* the limit sent is the limit asked for, brought into 1..50.
C28_SearchKeepsEntriesWithSlug ==
  srch.pc = "done" =>
    /\ srch.sent_limit \in 1..50
    /\ srch.limit \in 1..50 => srch.sent_limit = srch.limit
    /\ srch.limit < 1 => srch.sent_limit = 1
    /\ srch.limit > 50 => srch.sent_limit = 50
    /\ srch.res = "ok" =>
         /\ Len(srch.skills) = Cardinality(WithSlug)
         /\ \A k \in 1..Len(srch.skills) :
              \E i \in WithSlug :
                /\ Cardinality({j \in WithSlug : j < i}) = k - 1
                /\ srch.skills[k].slug = srch.response[i].slug[1]
                /\ srch.skills[k].score = srch.response[i].score
                /\ srch.skills[k].summary = srch.response[i].summary
                /\ srch.skills[k].version = srch.response[i].version
                /\ srch.skills[k].updated_at = srch.response[i].updated_at
                /\ srch.skills[k].display_name =
                     IF srch.response[i].display_name = None THEN ""
                     ELSE srch.response[i].display_name[1]

\* A response of an entry without slug before one with a slug and no display
\* name, asked for with a limit over 50: one skill is returned.
C28_Witness ==
  /\ srch.pc = "done"
  /\ srch.res = "ok"
  /\ srch.limit = 1000
  /\ Len(srch.response) = 2
  /\ srch.response[1].slug = None
  /\ srch.response[2].slug = Some("y")
  /\ srch.response[2].display_name = None
  /\ Len(srch.skills) = 1
  /\ srch.skills[1].slug = "y"

\* ------------------------------------------- sessions of remote handlers
\* The command handlers that open an SSH session.
RemoteHandlers ==
  {"test_remote_connection", "get_remote_tool_status", "sync_all_skills_to_remote",
   "sync_selected_skills_to_remote", "sync_remote_skill_to_tool", "list_remote_skills",
   "sync_skill_to_custom_target", "unsync_skill_from_custom_target",
   "browse_remote_directory"}

\* The most commands and transfers one handler issues.
MaxCommands == 2

SessionIds == 1..MaxProcs

NoHandler == [kind |-> "", pc |-> "idle", session |-> 0, left |-> 0]

\* A handler that keeps one session for the host and hands it to every call.
SharedSession(open) == 1

\* `let sess = create_ssh_session(..)`: a session of its own, which no other
\* handler holds.
NewSession(open) == CHOOSE id \in SessionIds \ open : \A other \in SessionIds \ open : id <= other

ConnsInit ==
  /\ RestIdle
  /\ repo = NoRepo
  /\ fmt = NoFormat
  /\ arch = NoArchive
  /\ srch = NoSearch
  /\ trows = NoRows
  /\ rsync = NoRemoteSync
  /\ QueryIdle
  /\ conns = [pc |-> "ready", open |-> {}, inflight |-> [id \in SessionIds |-> 0],
              workers |-> [p \in Procs |-> NoHandler]]

ConnsFrame ==
  UNCHANGED <<centralDir, batchVars, hostVars, localVars, customVars, uploadVars,
              repo, fmt, arch, srch, trows, rsync, queryVars>>

\* A handler starts on a worker of the blocking pool and creates its
\* session; when that fails it returns at once.
HandlerStart(p, kind) ==
  /\ conns.workers[p].pc = "idle"
  /\ \E sess_ok \in BOOLEAN, n \in 0..MaxCommands :
       IF sess_ok
         THEN LET id == NewSession(conns.open) IN
              conns' = [conns EXCEPT !.open = @ \cup {id},
                                     !.workers[p] = [kind |-> kind, pc |-> "open",
                                                     session |-> id, left |-> n]]
         ELSE /\ n = 0
              /\ conns' = [conns EXCEPT !.workers[p] = [kind |-> kind, pc |-> "done",
                                                        session |-> 0, left |-> 0]]
  /\ ConnsFrame

\* ssh_exec or sftp_upload_dir is entered with the handler's session.
CommandStart(p) ==
  /\ conns.workers[p].pc = "open"
  /\ conns.workers[p].left > 0
  /\ conns' = [conns EXCEPT !.workers[p].pc = "running",
                            !.inflight[conns.workers[p].session] = @ + 1]
  /\ ConnsFrame

\* The call returns: Ok, and the handler goes on, or Err, and the handler
\* issues nothing more.
CommandEnd(p) ==
  /\ conns.workers[p].pc = "running"
  /\ \E ok \in BOOLEAN :
       conns' = [conns EXCEPT !.workers[p].pc = "open",
                              !.workers[p].left = IF ok THEN @ - 1 ELSE 0,
                              !.inflight[conns.workers[p].session] = @ - 1]
  /\ ConnsFrame

\* The handler's closure ends and its session is dropped.
HandlerEnd(p) ==
  /\ conns.workers[p].pc = "open"
  /\ conns.workers[p].left = 0
  /\ conns' = [conns EXCEPT !.open = @ \ {conns.workers[p].session},
                            !.workers[p].pc = "done", !.workers[p].session = 0]
  /\ ConnsFrame

\* The result reaches the caller; the worker is free again.
HandlerReturn(p) ==
  /\ conns.workers[p].pc = "done"
  /\ conns' = [conns EXCEPT !.workers[p] = NoHandler]
  /\ ConnsFrame

ConnsNext ==
  \/ \E p \in Procs, kind \in RemoteHandlers : HandlerStart(p, kind)
  \/ \E p \in Procs : CommandStart(p)
  \/ \E p \in Procs : CommandEnd(p)
  \/ \E p \in Procs : HandlerEnd(p)
  \/ \E p \in Procs : HandlerReturn(p)

SpecConns == ConnsInit /\ [][ConnsNext]_vars

\* C26: no two handlers hold the same session, and no session has two
\* commands or transfers in flight at once.
C26_NoSessionShared ==
  /\ \A p, q \in Procs :
       p # q /\ conns.workers[p].session # 0 => conns.workers[p].session # conns.workers[q].session
  /\ \A id \in SessionIds : conns.inflight[id] <= 1
  /\ \A id \in SessionIds :
       conns.inflight[id] = Cardinality({p \in Procs : conns.workers[p].pc = "running"
                                                     /\ conns.workers[p].session = id})

\* Two handlers against the host each have a command in flight, each on its
\* own session.
C26_Witness ==
  \E p, q \in Procs :
    /\ p # q
    /\ conns.workers[p].pc = "running"
    /\ conns.workers[q].pc = "running"
    /\ conns.workers[p].kind = "sync_all_skills_to_remote"
    /\ conns.workers[q].kind = "sync_skill_to_custom_target"
    /\ conns.inflight[conns.workers[p].session] = 1
    /\ conns.inflight[conns.workers[q].session] = 1

\* -------------------------------------------- the skill_targets rows
\* The ids a row can have (Uuid::new_v4 gives one that no row has).
MaxRowId == 5

RowIds == 1..MaxRowId

FreshId(rows) == CHOOSE id \in RowIds : \A r \in rows : r.id # id

\* SkillTargetRecord { id: Uuid::new_v4(), skill_id, tool, .. }
NewTargetRecord(rows, s, k) == [id |-> FreshId(rows), skill_id |-> s, tool |-> k]

\* A write that adds the row whatever rows there are.
insert_skill_target(rows, rec) == rows \cup {rec}

\* store.upsert_skill_target: the row takes the place of the row with the
\* same (skill_id, tool), if there is one.
upsert_skill_target(rows, rec) ==
  {r \in rows : ~(r.skill_id = rec.skill_id /\ r.tool = rec.tool)} \cup {rec}

\* store.delete_skill_target(skill_id, tool)
delete_skill_target(rows, s, k) == {r \in rows : ~(r.skill_id = s /\ r.tool = k)}

\* store.get_skill_target(skill_id, tool) is Some.
HasTarget(rows, s, k) == \E r \in rows : r.skill_id = s /\ r.tool = k

\* sync_skill_to_tool: the loop over the group after the sync; `writes` is
\* how many store writes succeed before one fails.
RECURSIVE SyncGroupRows(_, _, _, _, _)
SyncGroupRows(rows, s, group, inst, writes) ==
  IF group = <<>> THEN rows
  ELSE IF Head(group) \notin inst THEN SyncGroupRows(rows, s, Tail(group), inst, writes)
  ELSE IF writes = 0 THEN rows
  ELSE SyncGroupRows(upsert_skill_target(rows, NewTargetRecord(rows, s, Head(group))),
                     s, Tail(group), inst, writes - 1)

\* unsync_skill_from_tool: the loop over the group's keys; `steps` is how
\* many removals and store writes succeed before one fails.
RECURSIVE UnsyncGroupRows(_, _, _, _, _)
UnsyncGroupRows(rows, s, keys, removed, steps) ==
  IF keys = <<>> THEN rows
  ELSE IF ~HasTarget(rows, s, Head(keys))
    THEN UnsyncGroupRows(rows, s, Tail(keys), removed, steps)
  ELSE IF steps < (IF removed THEN 1 ELSE 2) THEN rows
  ELSE UnsyncGroupRows(delete_skill_target(rows, s, Head(keys)), s, Tail(keys), TRUE,
                       steps - (IF removed THEN 1 ELSE 2))

RowsInit ==
  /\ RestIdle
  /\ repo = NoRepo
  /\ fmt = NoFormat
  /\ arch = NoArchive
  /\ srch = NoSearch
  /\ conns = NoConns
  /\ rsync = NoRemoteSync
  /\ QueryIdle
  /\ trows = {}

RowsFrame ==
  UNCHANGED <<centralDir, batchVars, hostVars, localVars, customVars, uploadVars,
              repo, fmt, arch, srch, conns, rsync, queryVars>>

\* sync_skill_to_tool(skillId, tool): nothing is written when the tool is
\* unknown or not installed or the sync fails.
SyncToolRows(s, t) ==
  /\ \E inst \in SUBSET KnownTools, sync_ok \in BOOLEAN, writes \in 0..2 :
       /\ Cardinality(trows) < MaxRowId - 1
       /\ trows' = IF adapters_find(t) /\ t \in inst /\ sync_ok
                     THEN SyncGroupRows(trows, s, adapters_sharing_skills_dir(t), inst, writes)
                     ELSE trows
  /\ RowsFrame

\* sync_skill_to_custom_target(skillId, customTargetId), local or remote:
\* one row with the key custom:<id>.
SyncCustomRows(s, id) ==
  /\ \E sync_ok \in BOOLEAN, write_ok \in BOOLEAN :
       /\ Cardinality(trows) < MaxRowId
       /\ trows' = IF sync_ok /\ write_ok
                     THEN upsert_skill_target(trows, NewTargetRecord(trows, s, CustomKey(id)))
                     ELSE trows
  /\ RowsFrame

\* unsync_skill_from_tool(skillId, tool)
UnsyncToolRows(s, t) ==
  /\ \E inst \in SUBSET KnownTools, steps \in 0..4 :
       trows' = IF adapters_find(t) /\ Range(adapters_sharing_skills_dir(t)) \cap inst = {}
                  THEN trows
                  ELSE UnsyncGroupRows(trows, s, group_tool_keys(t), FALSE, steps)
  /\ RowsFrame

\* unsync_skill_from_custom_target(skillId, customTargetId): a failed
\* removal is passed over when the custom target has no row any more.
UnsyncCustomRows(s, id) ==
  /\ \E ct_found \in BOOLEAN, remove_ok \in BOOLEAN, write_ok \in BOOLEAN :
       trows' = IF HasTarget(trows, s, CustomKey(id)) /\ (remove_ok \/ ~ct_found) /\ write_ok
                  THEN delete_skill_target(trows, s, CustomKey(id))
                  ELSE trows
  /\ RowsFrame

RowsNext ==
  \/ \E s \in SkillIds, t \in ToolKeys : SyncToolRows(s, t)
  \/ \E s \in SkillIds, id \in CustomIds : SyncCustomRows(s, id)
  \/ \E s \in SkillIds, t \in ToolKeys : UnsyncToolRows(s, t)
  \/ \E s \in SkillIds, id \in CustomIds : UnsyncCustomRows(s, id)

SpecRows == RowsInit /\ [][RowsNext]_vars

StagingPriors ==
  {EmptyRemote,
   [EmptyRemote EXCEPT !.staged[1] = "full", !.dirs = {"dAB", CustomDir},
                       !.links[<<"dAB", 1>>] = 1, !.links[<<CustomDir, 1>>] = 1],
   [EmptyRemote EXCEPT !.dirs = {"dAB", CustomDir}, !.links[<<"dAB", 1>>] = RealDir,
                       !.links[<<CustomDir, 1>>] = RealDir],
   [EmptyRemote EXCEPT !.staged[1] = "partial"]}

\* The steps of a single sync that can fail.
SingleFailures ==
  {"none", "echo_home", "mkdir", "upload_clean", "upload_partial", "link_mkdir", "link_ln"}

\* What the upload of a single sync met: it was not reached, it failed, or
\* it returned Ok.
UploadMet(local_exists, fail) ==
  IF fail \in {"echo_home", "mkdir"} THEN "none"
  ELSE IF ~local_exists \/ fail \in {"upload_clean", "upload_partial"} THEN "failed"
  ELSE "ok"

\* A single sync that goes on to the link whatever the upload returned.
sync_skill_to_remote_tool_unchecked(rem, n, tool_key, local_exists, fail) ==
  LET log1 == <<Op("echo_home", n, "")>>
      log2 == Append(log1, Op("mkdir_central", n, ""))
      rem2 == [rem EXCEPT !.staged[n] = IF @ = "none" THEN "partial" ELSE @]
      up == sftp_upload_dir(rem2, log2, n, local_exists,
                            IF fail = "upload_clean" THEN "fail_clean"
                            ELSE IF fail = "upload_partial" THEN "fail_partial" ELSE "ok")
      ln == create_remote_symlink(up.remote, up.ops, n, relative_skills_dir(tool_key), n,
                                  IF fail = "link_mkdir" THEN "mkdir_fail"
                                  ELSE IF fail = "link_ln" THEN "ln_fail" ELSE "ok")
  IN IF ~adapters_find(tool_key) THEN [ok |-> FALSE, remote |-> rem, ops |-> <<>>]
     ELSE IF fail = "echo_home" THEN [ok |-> FALSE, remote |-> rem, ops |-> log1]
     ELSE IF fail = "mkdir" THEN [ok |-> FALSE, remote |-> rem, ops |-> log2]
     ELSE ln

\* sync_skill_to_remote_tool(sess, skill_name, local_skill_path, tool_key):
\* the adapter, `echo $HOME`?, `mkdir -p`?, sftp_upload_dir?, then
\* create_remote_symlink?.  Returns [ok, remote, ops].
sync_skill_to_remote_tool(rem, n, tool_key, local_exists, fail) ==
  LET log1 == <<Op("echo_home", n, "")>>
      log2 == Append(log1, Op("mkdir_central", n, ""))
      rem2 == [rem EXCEPT !.staged[n] = IF @ = "none" THEN "partial" ELSE @]
      up == sftp_upload_dir(rem2, log2, n, local_exists,
                            IF fail = "upload_clean" THEN "fail_clean"
                            ELSE IF fail = "upload_partial" THEN "fail_partial" ELSE "ok")
      ln == create_remote_symlink(up.remote, up.ops, n, relative_skills_dir(tool_key), n,
                                  IF fail = "link_mkdir" THEN "mkdir_fail"
                                  ELSE IF fail = "link_ln" THEN "ln_fail" ELSE "ok")
  IN IF ~adapters_find(tool_key) THEN [ok |-> FALSE, remote |-> rem, ops |-> <<>>]
     ELSE IF fail = "echo_home" THEN [ok |-> FALSE, remote |-> rem, ops |-> log1]
     ELSE IF fail = "mkdir" THEN [ok |-> FALSE, remote |-> rem, ops |-> log2]
     ELSE IF ~up.ok THEN up
     ELSE ln

\* sync_all_skills_to_remote: the loop over the skills, from skill i on.
RECURSIVE BatchLoop(_, _, _, _, _, _, _)
BatchLoop(acc, skills, i, local, tool_keys, up, link) ==
  IF i > Len(skills) THEN acc
  ELSE BatchLoop(LoopBody(acc, skills[i], skills[i] \in local, tool_keys, up[i], link),
                 skills, i + 1, local, tool_keys, up, link)

\* The skills and tool keys a batch is called with.
StagingSkills == {sk \in UNION {[1..n -> Names] : n \in 1..2} :
                    \A i, j \in DOMAIN sk : i # j => sk[i] # sk[j]}

StagingToolKeys == {<<>>, <<"toolA">>, <<"toolA", "toolC">>, <<UnknownKey, "toolC">>}

StagingInit ==
  /\ ops = <<>>
  /\ bSkills = <<>>
  /\ bToolKeys = <<>>
  /\ bPc = "off"
  /\ bI = 0
  /\ synced = <<>>
  /\ errors = <<>>
  /\ bResult = "none"
  /\ HostIdle
  /\ LocalIdle
  /\ SftpIdle
  /\ repo = NoRepo
  /\ fmt = NoFormat
  /\ arch = NoArchive
  /\ srch = NoSearch
  /\ conns = NoConns
  /\ trows = {}
  /\ rsync = [pc |-> "idle", kind |-> "", skill |-> 0, tool |-> "",
              up |-> [n \in Names |-> "none"], res |-> "none"]
  /\ QueryIdle
  /\ centralDir \in {Names, Names \ {2}}
  /\ remote \in StagingPriors

StagingFrame ==
  UNCHANGED <<centralDir, bSkills, bToolKeys, bPc, bI, synced, errors, bResult, hostVars,
              localVars, customVars, uploadVars, repo, fmt, arch, srch, conns, queryVars>>

\* sync_remote_skill_to_tool: one skill to one tool of the host.
SyncSkillToRemoteTool(n, tool_key) ==
  /\ rsync.pc = "idle"
  /\ \E fail \in SingleFailures :
       LET r == sync_skill_to_remote_tool(remote, n, tool_key, n \in centralDir, fail) IN
       /\ remote' = r.remote
       /\ ops' = r.ops
       /\ rsync' = [pc |-> "done", kind |-> "sync_skill_to_remote_tool",
                    skill |-> n, tool |-> tool_key,
                    up |-> [rsync.up EXCEPT ![n] = IF adapters_find(tool_key)
                                                     THEN UploadMet(n \in centralDir, fail)
                                                     ELSE "none"],
                    res |-> IF r.ok THEN "ok" ELSE "err"]
       /\ trows' = trows
  /\ StagingFrame

\* sync_all_skills_to_remote(sess, skills, tool_keys), the whole function.
SyncAllSkillsToRemote(skills, tool_keys) ==
  /\ rsync.pc = "idle"
  /\ \E fail \in {"none", "echo_home", "mkdir"}, up \in [1..Len(skills) -> UploadOutcomes],
        link \in [1..Len(tool_keys) -> LinkOutcomes] :
       LET log1 == <<Op("echo_home", 0, "")>>
           log2 == Append(log1, Op("mkdir_skillshub", 0, ""))
           acc == BatchLoop([remote |-> remote, ops |-> log2, synced |-> <<>>,
                             errors |-> <<>>],
                            skills, 1, centralDir, tool_keys, up, link)
           ran == fail = "none"
       IN
       /\ fail # "none" => /\ \A i \in DOMAIN up : up[i] = "ok"
                           /\ \A k \in DOMAIN link : link[k] = "ok"
       /\ remote' = IF ran THEN acc.remote ELSE remote
       /\ ops' = IF ran THEN acc.ops ELSE IF fail = "mkdir" THEN log2 ELSE log1
       /\ rsync' = [pc |-> "done", kind |-> "sync_all_skills_to_remote",
                    skill |-> 0, tool |-> "",
                    up |-> [n \in Names |->
                              IF ran /\ n \in centralDir /\ n \in Range(skills)
                                THEN LET i == CHOOSE j \in DOMAIN skills : skills[j] = n
                                     IN IF up[i] = "ok" THEN "ok" ELSE "failed"
                                ELSE "none"],
                    res |-> IF ran /\ BatchVerdict(acc.synced, acc.errors) = "ok"
                              THEN "ok" ELSE "err"]
       /\ trows' = trows
  /\ StagingFrame

\* The remote branch of sync_skill_to_custom_target, with the row it writes.
SyncSkillToRemoteCustomTarget(s, id) ==
  /\ rsync.pc = "idle"
  /\ \E fail \in SingleFailures, write_ok \in BOOLEAN :
       LET r == RemoteCustomSync(remote, s, s \in centralDir, fail) IN
       /\ remote' = r.remote
       /\ ops' = r.ops
       /\ trows' = IF r.ok /\ write_ok
                     THEN upsert_skill_target(trows, NewTargetRecord(trows, s, CustomKey(id)))
                     ELSE trows
       /\ rsync' = [pc |-> "done", kind |-> "sync_skill_to_custom_target",
                    skill |-> s, tool |-> CustomKey(id),
                    up |-> [rsync.up EXCEPT ![s] = UploadMet(s \in centralDir, fail)],
                    res |-> IF r.ok /\ write_ok THEN "ok" ELSE "err"]
  /\ StagingFrame

StagingNext ==
  \/ \E n \in Names, t \in ToolKeys : SyncSkillToRemoteTool(n, t)
  \/ \E sk \in StagingSkills, tk \in StagingToolKeys : SyncAllSkillsToRemote(sk, tk)
  \/ \E s \in SkillIds, id \in CustomIds : SyncSkillToRemoteCustomTarget(s, id)

SpecStaging == StagingInit /\ [][StagingNext]_vars

\* The places of the log ops where the skill n is uploaded and linked.
UploadsAt(log, n) == {i \in 1..Len(log) : log[i].op = "upload" /\ log[i].skill = n}

LinksAt(log, n) == {i \in 1..Len(log) : log[i].op = "ln" /\ log[i].skill = n}

\* C30: in each remote sync path a link of a skill is made or replaced only
\* after the upload of that skill has returned Ok in the same operation;
\* when the upload fails no link of the skill is made or replaced and the
\* custom target path writes no row.
C30_LinkOnlyAfterUpload ==
  [][\A n \in Names :
       /\ (LinksAt(ops', n) # {}
             \/ (\E d \in DestDirs : remote'.links[<<d, n>>] # remote.links[<<d, n>>])
             \/ (\E e \in DestDirs : (<<<<e, n>>, n>> \in remote'.inside)
                                        # (<<<<e, n>>, n>> \in remote.inside)))
            => /\ rsync'.up[n] = "ok"
               /\ \A i \in LinksAt(ops', n) : \E j \in UploadsAt(ops', n) : j < i
       /\ rsync'.up[n] = "failed"
            => /\ LinksAt(ops', n) = {}
               /\ rsync'.res = "err" \/ rsync'.kind = "sync_all_skills_to_remote"
               /\ trows' = trows]_vars

\* The batch has uploaded skill 1, linked it from both tool directories in
\* place of what was there, and has failed to upload skill 3.
C30_Witness ==
  /\ rsync.pc = "done"
  /\ rsync.kind = "sync_all_skills_to_remote"
  /\ rsync.up[1] = "ok"
  /\ rsync.up[3] = "failed"
  /\ Cardinality(LinksAt(ops, 1)) = 2
  /\ LinksAt(ops, 3) = {}
  /\ remote.links[<<"dC", 1>>] = 1
  /\ remote.links[<<"dC", 3>>] = 0

\* The places of the log ops where a remote directory is made.
MkdirsAt(log) == {i \in 1..Len(log) : log[i].op \in {"mkdir_central", "mkdir_parent"}}

\* C31: a single-skill remote sync whose precondition fails leaves the host
\* as it was: with an unknown tool key sync_skill_to_remote_tool returns
\* Err having run no remote command; with a local skill directory that does
\* not exist it returns Err having made no remote directory and no link.
C31_FailedPreconditionLeavesHostUnchanged ==
  [][rsync'.kind = "sync_skill_to_remote_tool" /\ rsync.pc = "idle"
       => /\ ~adapters_find(rsync'.tool)
               => /\ rsync'.res = "err"
                  /\ ops' = <<>>
                  /\ remote' = remote
          /\ (adapters_find(rsync'.tool) /\ rsync'.skill \notin centralDir)
               => /\ rsync'.res = "err"
                  /\ MkdirsAt(ops') = {}
                  /\ LinksAt(ops', rsync'.skill) = {}
                  /\ remote' = remote]_vars

\* ------------------------------------------------------- get_github_tree
\* The branches tried, in order.
Branches == <<"main", "master">>

\* The `type` of an entry of a GitHub tree: a directory, a file, a submodule.
EntryTypes == {"tree", "blob", "commit"}

\* The most entries of a tree.
MaxTree == 2

GitHubTreeEntries == [path : {"a", "b"}, entry_type : EntryTypes]

GitHubTrees == UNION {[1..n -> GitHubTreeEntries] : n \in 0..MaxTree}

\* What a request for a branch meets: no answer (send fails), an answer
\* with a status that is no success, a success whose body does not parse
\* as a tree, or a success with a tree.
TreeAnswers ==
  {[kind |-> k, tree |-> <<>>] : k \in {"no_answer", "not_success", "bad_body"}}
    \cup {[kind |-> "tree", tree |-> t] : t \in GitHubTrees}

\* The entry that takes every type but blob for a directory.
SkillFileEntryNotBlob(e) == [path |-> e.path, is_dir |-> e.entry_type # "blob"]

\* SkillFileEntry { path: e.path, is_dir: e.entry_type == "tree" }
SkillFileEntry(e) == [path |-> e.path, is_dir |-> e.entry_type = "tree"]

\* The loop `for branch in &["main", "master"]` from branch i on, with the
\* requests sent so far: [requests, res, entries].
RECURSIVE TreeLoop(_, _, _)
TreeLoop(answers, i, requests) ==
  IF i > Len(Branches)
    THEN [requests |-> requests, res |-> "err", entries |-> <<>>]
  ELSE LET sent == Append(requests, Branches[i])
           a == answers[i]
       IN IF a.kind = "no_answer"
            THEN [requests |-> sent, res |-> "err", entries |-> <<>>]
          ELSE IF a.kind = "bad_body"
            THEN [requests |-> sent, res |-> "err", entries |-> <<>>]
          ELSE IF a.kind = "tree"
            THEN [requests |-> sent, res |-> "ok",
                  entries |-> [j \in 1..Len(a.tree) |-> SkillFileEntry(a.tree[j])]]
          ELSE TreeLoop(answers, i + 1, sent)

\* get_github_tree(owner, repo), with what each branch answers.
get_github_tree(answers) == TreeLoop(answers, 1, <<>>)

TreeInit ==
  /\ RestIdle
  /\ repo = NoRepo
  /\ fmt = NoFormat
  /\ arch = NoArchive
  /\ srch = NoSearch
  /\ conns = NoConns
  /\ trows = NoRows
  /\ rsync = NoRemoteSync
  /\ tstat = NoToolStatus
  /\ \E main \in TreeAnswers, master \in TreeAnswers :
       gh = [pc |-> "called", answers |-> <<main, master>>, requests |-> <<>>,
             res |-> "none", entries |-> <<>>]

GetGithubTree ==
  /\ gh.pc = "called"
  /\ LET r == get_github_tree(gh.answers) IN
     gh' = [gh EXCEPT !.pc = "done", !.requests = r.requests, !.res = r.res,
                      !.entries = r.entries]
  /\ UNCHANGED <<centralDir, batchVars, hostVars, localVars, customVars, uploadVars,
                 repo, fmt, arch, srch, conns, trows, rsync, tstat>>

TreeNext == GetGithubTree

SpecTree == TreeInit /\ [][TreeNext]_vars

\* The entries returned are those of the tree t, each a directory exactly
\* when its type is `tree`.
EntriesOf(t) ==
  /\ gh.res = "ok"
  /\ Len(gh.entries) = Len(t)
  /\ \A j \in 1..Len(t) : /\ gh.entries[j].path = t[j].path
                           /\ gh.entries[j].is_dir <=> t[j].entry_type = "tree"

\* C37: get_github_tree asks for main first and for master second; it
\* returns the tree of main when main answers with a success that carries
\* a tree; it asks for master exactly when main answered with a status that
\* is no success, and then returns the tree of master if master answers
\* with one; it returns an error when neither branch answers with success;
\* each entry returned is a directory exactly when its type is `tree`.
C37_MainThenMaster ==
  gh.pc = "done" =>
    LET main == gh.answers[1]
        master == gh.answers[2]
        NoSuccess(a) == a.kind \in {"no_answer", "not_success"}
    IN /\ gh.requests \in {<<"main">>, <<"main", "master">>}
       /\ main.kind = "tree" => EntriesOf(main.tree) /\ gh.requests = <<"main">>
       /\ gh.requests = <<"main", "master">> <=> main.kind = "not_success"
       /\ (main.kind = "not_success" /\ master.kind = "tree") => EntriesOf(master.tree)
       /\ (NoSuccess(main) /\ NoSuccess(master)) => gh.res = "err"
       /\ gh.res = "ok" => EntriesOf(main.tree) \/ EntriesOf(master.tree)

\* main answered 404 and master with a tree of a directory and a
\* submodule: both were asked, and the entries are those of master.
C37_Witness ==
  /\ gh.pc = "done"
  /\ gh.requests = <<"main", "master">>
  /\ gh.answers[1].kind = "not_success"
  /\ gh.res = "ok"
  /\ gh.entries = <<[path |-> "a", is_dir |-> TRUE], [path |-> "b", is_dir |-> FALSE]>>
  /\ gh.answers[2].tree[2].entry_type = "commit"

\* -------------------------------------------------------- get_tool_status
\* default_tool_adapters(): the keys of the adapters, in order.
AdapterKeys == <<"toolA", "toolB", "toolC">>

\* The most calls of get_tool_status in a run.
MaxCalls == 3

\* serde_json::to_string(&installed): the stored text of a list of keys.
to_string(keys) == [json |-> "array", items |-> keys]

\* serde_json::from_str::<Vec<String>>(&raw).ok()
from_str(raw) == IF raw.json = "array" THEN Some(raw.items) ELSE None

\* The keys of the adapters for which is_tool_installed is true, in the
\* order of the adapters.
InstalledKeys(inst) == SelectSeq(AdapterKeys, LAMBDA k : k \in inst)

\* prev: the stored list, or the empty list when there is no setting or it
\* does not parse.
PrevInstalled(setting) ==
  IF setting = None THEN <<>>
  ELSE LET parsed == from_str(setting[1]) IN IF parsed = None THEN <<>> ELSE parsed[1]

\* The report that takes every installed tool for new.
newly_installed_all(cur, prev) == cur

\* newly_installed: the installed keys that are not in prev_set.
newly_installed(cur, prev) == SelectSeq(cur, LAMBDA k : k \notin Range(prev))

StatusInit ==
  /\ RestIdle
  /\ repo = NoRepo
  /\ fmt = NoFormat
  /\ arch = NoArchive
  /\ srch = NoSearch
  /\ conns = NoConns
  /\ trows = NoRows
  /\ rsync = NoRemoteSync
  /\ gh = NoTree
  /\ tstat = [pc |-> "idle", n |-> 0, setting |-> None, res |-> "none",
              installed |-> <<>>, newly_installed |-> <<>>]

\* get_tool_status: the adapters are probed (is_tool_installed?,
\* resolve_default_path?), the setting installed_tools_v1 is read
\* (get_setting?), newly_installed is made, and the current list is stored
\* with `let _ = store.set_setting(..)`: a failed write is dropped.
GetToolStatus ==
  /\ tstat.n < MaxCalls
  /\ \E probe_ok \in BOOLEAN, read_ok \in BOOLEAN, write_ok \in BOOLEAN :
       LET cur == InstalledKeys(installed)
           prev == PrevInstalled(tstat.setting)
       IN /\ ~probe_ok => read_ok /\ write_ok
          /\ ~read_ok => write_ok
          /\ tstat' =
               IF probe_ok /\ read_ok
                 THEN [pc |-> "done", n |-> tstat.n + 1,
                       setting |-> IF write_ok THEN Some(to_string(cur)) ELSE tstat.setting,
                       res |-> "ok", installed |-> cur,
                       newly_installed |-> newly_installed(cur, prev)]
                 ELSE [tstat EXCEPT !.pc = "done", !.n = @ + 1, !.res = "err",
                                    !.installed = <<>>, !.newly_installed = <<>>]
  /\ UNCHANGED <<centralDir, batchVars, hostVars, localVars, customVars, uploadVars,
                 repo, fmt, arch, srch, conns, trows, rsync, gh>>

StatusNext ==
  \/ GetToolStatus
  \/ \E t \in KnownTools : SetInstalled(t)

SpecStatus == StatusInit /\ [][StatusNext]_vars

\* The set of keys the setting holds.
StoredKeys(setting) == Range(PrevInstalled(setting))

\* A call of get_tool_status returns its report in this step.
StatusReported == tstat'.n = tstat.n + 1 /\ tstat'.res = "ok"

\* C38 as stated: get_tool_status reports as newly_installed exactly the
\* installed tools that are not in the set the previous call stored (all of
\* them on the first call) and stores the current set, so that a second
\* call with the same tools installed reports none.
C38_NewlyInstalledReportedOnce ==
  [][StatusReported =>
       /\ Range(tstat'.newly_installed) = installed \ StoredKeys(tstat.setting)
       /\ Range(tstat'.installed) = installed
       /\ StoredKeys(tstat'.setting) = installed
       /\ (tstat.res = "ok" /\ Range(tstat.installed) = installed)
            => tstat'.newly_installed = <<>>]_vars

\* C38, amended: the same with the set last stored, which is that of the
\* latest call whose write of the setting succeeded: a call stores the
\* current set or, when the write fails, leaves the setting as it was.
C38_NewlyInstalledAgainstStored ==
  [][StatusReported =>
       /\ Range(tstat'.newly_installed) = installed \ StoredKeys(tstat.setting)
       /\ Range(tstat'.installed) = installed
       /\ StoredKeys(tstat'.setting) = installed \/ tstat'.setting = tstat.setting
       /\ (tstat.res = "ok" /\ Range(tstat.installed) = installed
             /\ StoredKeys(tstat.setting) = installed)
            => tstat'.newly_installed = <<>>]_vars

\* The second call, after toolB was installed: it reports toolB alone and
\* has stored both tools.
C38_Witness ==
  /\ tstat.n = 2
  /\ tstat.res = "ok"
  /\ tstat.installed = <<"toolA", "toolB">>
  /\ tstat.newly_installed = <<"toolB">>
  /\ tstat.setting = Some(to_string(<<"toolA", "toolB">>))

====
